---- MODULE Spec2Model ----
(***************************************************************************)
(* Model of the secure-exam gateway (src/gateway/index.js, db.js): the     *)
(* protocol-filtering WebSocket relay, the access resolvers, the container *)
(* runtime they drive, the session registry and the expiry sweeper.        *)
(*                                                                         *)
(* Every `await` of a handler is a scheduling point: the synchronous code  *)
(* between two awaits is one action, and the runtime's processing of the   *)
(* awaited call is an action of its own (DockerCall).                      *)
(***************************************************************************)
EXTENDS Integers, Sequences, FiniteSets, TLC

\* ------------------------------------------------------------------ bounds
\* Messages received by one relayed connection (both directions together).
MaxMsgs == 2
\* Bytes received by one relayed connection (both directions together).
MaxBytes == 3
\* Concurrent HTTP requests / timer callbacks in flight.
NumReq == 2
\* The clock runs from 0 to MaxTime.
MaxTime == 3
\* Containers the runtime creates in one run.
MaxCreate == 2
\* Times one ExamSession is ended by the professor in one run.
MaxEnds == 1

VARIABLES
    \* --- relay (one browser upgrade) ---
    relayPc,      \* "idle" | "connecting" | "relaying" | "abandoned" | "closed"
    relayHost,    \* host the outbound WebSocket was opened to, or <<>>
    clientState,  \* browser side: "none" | "socket" | "OPEN" | "CLOSING" | "CLOSED" | "destroyed"
    targetState,  \* container side: "none" | "CONNECTING" | "OPEN" | "CLOSING" | "CLOSED"
    toTarget,     \* messages sent on the container-side connection, in order
    toClient,     \* messages sent on the browser-side connection, in order
    lastRecv,     \* the last message a pump received: [from, data]
    nmsgs,        \* messages received so far
    nbytes,       \* bytes received so far
    rfb,          \* ghost: RFB framing of the two byte streams (see CutTags),
                  \* the messages each 'message' listener was handed, in order,
                  \* and the path of the upgrade request
    \* --- control plane ---
    now,          \* the clock
    assignments,  \* table assignments (written by PUT /api/assignments/:id only)
    enrollments,  \* table enrollments: id -> row
    examSessions, \* table exam_sessions: sequence of rows, id = index
    containers,   \* the runtime: set of container records
    ncreated,     \* containers created so far (next id = ncreated + 1)
    sessions,     \* the in-memory Map `sessions`: key -> entry
    req           \* requests / timer callbacks in flight: slot -> record

relayVars == <<relayPc, relayHost, clientState, targetState, toTarget, toClient,
               lastRecv, nmsgs, nbytes, rfb>>
ctlVars == <<now, assignments, enrollments, examSessions, containers, ncreated, req>>
vars == <<relayPc, relayHost, clientState, targetState, toTarget, toClient,
          lastRecv, nmsgs, nbytes, rfb,
          now, assignments, enrollments, examSessions, containers, ncreated,
          sessions, req>>

\* ------------------------------------------------------------------ names
\* A container name / session key is the sequence of its '-'-separated parts:
\* 'lms-3-7' is <<"lms", 3, 7>>.
getContainerName(enrollment) ==
    <<"lms", enrollment.course_id, enrollment.student_id>>

examContainerName(assignmentId, studentId) ==
    <<"exam", assignmentId, studentId>>

\* sessionId.startsWith('lms-') ? sessionId : ('exam-' + sessionId)
ContainerHost(sessionId) ==
    IF Len(sessionId) > 1 /\ Head(sessionId) = "lms"
    THEN sessionId
    ELSE <<"exam">> \o sessionId

\* ================================================================== relay
\* Byte values that matter to the filter: 6 = ClientCutText, 3 = ServerCutText,
\* 0 = any other value.
Bytes == {0, 3, 6}

\* ws ^8 hands every message to the 'message' listener as a Buffer.
Buffers(n) == UNION {[1..k -> Bytes] : k \in 0..n}

ClientCutText == 6
ServerCutText == 3

NoMsg == [from |-> "none", data |-> <<>>]

\* Ghost. The two directions are RFB byte streams that the transport cuts
\* into WebSocket messages anywhere. `starts` are the positions of `data`
\* where an RFB message begins; a byte belongs to a cut-text message iff the
\* RFB message it lies in begins with the direction's cut-text type. `carry`
\* says whether the stream was inside a cut-text message when `data` began.
MaxOf(S) == CHOOSE x \in S : \A y \in S : y <= x

CutTags(data, starts, carry, marker) ==
    [p \in 1..Len(data) |->
        LET S == {s \in starts : s <= p}
        IN  IF S = {} THEN carry ELSE data[MaxOf(S)] = marker]

CarryAfter(data, starts, carry, marker) ==
    IF Len(data) = 0 THEN carry
    ELSE CutTags(data, starts, carry, marker)[Len(data)]

HasCut(tags) == \E p \in DOMAIN tags : tags[p]
HasOther(tags) == \E p \in DOMAIN tags : ~tags[p]

\* The paths an upgrade request may carry: /vnc/{key}/websockify or another.
RelayKeys == {<<"lms", 3, 7>>, <<"exam", 9, 4>>, <<"lms", 3, 8>>}
UpgradeUrls == {<<"vnc", k, "websockify">> : k \in RelayKeys} \cup {<<"other">>}

UrlMatches(url) == Len(url) = 3 /\ url[1] = "vnc" /\ url[3] = "websockify"

InitRelay ==
    /\ relayPc = "idle"
    /\ relayHost = <<>>
    /\ clientState = "none"
    /\ targetState = "none"
    /\ toTarget = <<>>
    /\ toClient = <<>>
    /\ lastRecv = NoMsg
    /\ nmsgs = 0
    /\ nbytes = 0
    /\ rfb = [clientInCut |-> FALSE, targetInCut |-> FALSE,
              cutLeaked |-> FALSE, dataLost |-> FALSE,
              fromClient |-> <<>>, fromTarget |-> <<>>, url |-> <<>>]

\* server.on('upgrade') without the registry lookup.
Upgrade_NoLookup(url) ==
    /\ relayPc = "idle"
    /\ IF ~UrlMatches(url)
       THEN /\ clientState' = "destroyed"
            /\ relayPc' = "closed"
            /\ UNCHANGED <<relayHost, targetState>>
       ELSE /\ clientState' = "socket"
            /\ relayHost' = ContainerHost(url[2])
            /\ targetState' = "CONNECTING"
            /\ relayPc' = "connecting"
    /\ rfb' = [rfb EXCEPT !.url = url]
    /\ UNCHANGED <<toTarget, toClient, lastRecv, nmsgs, nbytes>>
    /\ UNCHANGED ctlVars /\ UNCHANGED sessions

\* server.on('upgrade')
Upgrade(url) ==
    /\ relayPc = "idle"
    /\ IF ~UrlMatches(url) \/ url[2] \notin DOMAIN sessions
       THEN /\ clientState' = "destroyed"
            /\ relayPc' = "closed"
            /\ UNCHANGED <<relayHost, targetState>>
       ELSE /\ clientState' = "socket"
            /\ relayHost' = ContainerHost(url[2])
            /\ targetState' = "CONNECTING"
            /\ relayPc' = "connecting"
    /\ rfb' = [rfb EXCEPT !.url = url]
    /\ UNCHANGED <<toTarget, toClient, lastRecv, nmsgs, nbytes>>
    /\ UNCHANGED ctlVars /\ UNCHANGED sessions

\* The browser gives up while the outbound connection is still being opened.
SocketClose ==
    /\ relayPc = "connecting"
    /\ clientState = "socket"
    /\ clientState' = "CLOSED"
    /\ UNCHANGED <<relayPc, relayHost, targetState, toTarget, toClient, lastRecv,
                   nmsgs, nbytes, rfb>>
    /\ UNCHANGED ctlVars /\ UNCHANGED sessions

\* targetWs.on('open'): wss.handleUpgrade completes the browser handshake and
\* installs the pumps; on a socket that is no longer writable it destroys the
\* socket and never calls back.
TargetOpen ==
    /\ relayPc = "connecting"
    /\ targetState = "CONNECTING"
    /\ targetState' = "OPEN"
    /\ IF clientState = "socket"
       THEN clientState' = "OPEN" /\ relayPc' = "relaying"
       ELSE clientState' = "destroyed" /\ relayPc' = "abandoned"
    /\ UNCHANGED <<relayHost, toTarget, toClient, lastRecv, nmsgs, nbytes, rfb>>
    /\ UNCHANGED ctlVars /\ UNCHANGED sessions

\* The outer targetWs.on('error') without socket.destroy().
TargetError_KeepsSocket ==
    /\ targetState \in {"CONNECTING", "OPEN"}
    /\ targetState' = "CLOSED"
    /\ UNCHANGED <<relayPc, clientState, relayHost, toTarget, toClient, lastRecv,
                   nmsgs, nbytes, rfb>>
    /\ UNCHANGED ctlVars /\ UNCHANGED sessions

\* The outer targetWs.on('error'): socket.destroy(). The ws library closes the
\* failed connection.
TargetError ==
    /\ targetState \in {"CONNECTING", "OPEN"}
    /\ targetState' = "CLOSED"
    /\ clientState' = "destroyed"
    /\ relayPc' = "closed"
    /\ UNCHANGED <<relayHost, toTarget, toClient, lastRecv, nmsgs, nbytes, rfb>>
    /\ UNCHANGED ctlVars /\ UNCHANGED sessions

\* clientWs.on('message') filtering the other direction's marker.
ClientMessage_WrongMarker(data, starts) ==
    /\ relayPc = "relaying"
    /\ clientState = "OPEN"
    /\ nmsgs < MaxMsgs
    /\ nbytes + Len(data) <= MaxBytes
    /\ LET blocked == Len(data) > 0 /\ data[1] = 3
           sent == ~blocked /\ targetState = "OPEN"
       IN  toTarget' = IF sent THEN Append(toTarget, data) ELSE toTarget
    /\ lastRecv' = [from |-> "client", data |-> data]
    /\ nmsgs' = nmsgs + 1
    /\ nbytes' = nbytes + Len(data)
    /\ UNCHANGED <<relayPc, relayHost, clientState, targetState, toClient, rfb>>
    /\ UNCHANGED ctlVars /\ UNCHANGED sessions

\* clientWs.on('message') handing the newest message to the container first.
ClientMessage_NewestFirst(data, starts) ==
    /\ relayPc = "relaying"
    /\ clientState = "OPEN"
    /\ nmsgs < MaxMsgs
    /\ nbytes + Len(data) <= MaxBytes
    /\ LET tags == CutTags(data, starts, rfb.clientInCut, ClientCutText)
           blocked == Len(data) > 0 /\ data[1] = 6
           sent == ~blocked /\ targetState = "OPEN"
       IN  /\ toTarget' = IF sent THEN <<data>> \o toTarget ELSE toTarget
           /\ rfb' = [rfb EXCEPT
                  !.clientInCut = CarryAfter(data, starts, rfb.clientInCut, ClientCutText),
                  !.fromClient = Append(@, data),
                  !.cutLeaked = @ \/ (sent /\ HasCut(tags)),
                  !.dataLost = @ \/ (blocked /\ HasOther(tags))]
    /\ lastRecv' = [from |-> "client", data |-> data]
    /\ nmsgs' = nmsgs + 1
    /\ nbytes' = nbytes + Len(data)
    /\ UNCHANGED <<relayPc, relayHost, clientState, targetState, toClient>>
    /\ UNCHANGED ctlVars /\ UNCHANGED sessions

\* clientWs.on('message') answering a blocked message with a frame of its own.
ClientMessage_AnswersBlocked(data, starts) ==
    /\ relayPc = "relaying"
    /\ clientState = "OPEN"
    /\ nmsgs < MaxMsgs
    /\ nbytes + Len(data) <= MaxBytes
    /\ LET tags == CutTags(data, starts, rfb.clientInCut, ClientCutText)
           blocked == Len(data) > 0 /\ data[1] = 6
           sent == ~blocked /\ targetState = "OPEN"
       IN  /\ toTarget' = IF sent THEN Append(toTarget, data) ELSE toTarget
           /\ toClient' = IF blocked THEN Append(toClient, <<0>>) ELSE toClient
           /\ rfb' = [rfb EXCEPT
                  !.clientInCut = CarryAfter(data, starts, rfb.clientInCut, ClientCutText),
                  !.fromClient = Append(@, data),
                  !.cutLeaked = @ \/ (sent /\ HasCut(tags)),
                  !.dataLost = @ \/ (blocked /\ HasOther(tags))]
    /\ lastRecv' = [from |-> "client", data |-> data]
    /\ nmsgs' = nmsgs + 1
    /\ nbytes' = nbytes + Len(data)
    /\ UNCHANGED <<relayPc, relayHost, clientState, targetState>>
    /\ UNCHANGED ctlVars /\ UNCHANGED sessions

\* clientWs.on('message'), with the RFB framing of the bytes as ghost input.
ClientMessage(data, starts) ==
    /\ relayPc = "relaying"
    /\ clientState = "OPEN"
    /\ nmsgs < MaxMsgs
    /\ nbytes + Len(data) <= MaxBytes
    /\ LET tags == CutTags(data, starts, rfb.clientInCut, ClientCutText)
           blocked == Len(data) > 0 /\ data[1] = 6
           sent == ~blocked /\ targetState = "OPEN"
       IN  /\ toTarget' = IF sent THEN Append(toTarget, data) ELSE toTarget
           /\ rfb' = [rfb EXCEPT
                  !.clientInCut = CarryAfter(data, starts, rfb.clientInCut, ClientCutText),
                  !.fromClient = Append(@, data),
                  !.cutLeaked = @ \/ (sent /\ HasCut(tags)),
                  !.dataLost = @ \/ (blocked /\ HasOther(tags))]
    /\ lastRecv' = [from |-> "client", data |-> data]
    /\ nmsgs' = nmsgs + 1
    /\ nbytes' = nbytes + Len(data)
    /\ UNCHANGED <<relayPc, relayHost, clientState, targetState, toClient>>
    /\ UNCHANGED ctlVars /\ UNCHANGED sessions

\* targetWs.on('message') filtering the other direction's marker.
TargetMessage_WrongMarker(data, starts) ==
    /\ relayPc = "relaying"
    /\ targetState = "OPEN"
    /\ nmsgs < MaxMsgs
    /\ nbytes + Len(data) <= MaxBytes
    /\ LET blocked == Len(data) > 0 /\ data[1] = 6
           sent == ~blocked /\ clientState = "OPEN"
       IN  toClient' = IF sent THEN Append(toClient, data) ELSE toClient
    /\ lastRecv' = [from |-> "target", data |-> data]
    /\ nmsgs' = nmsgs + 1
    /\ nbytes' = nbytes + Len(data)
    /\ UNCHANGED <<relayPc, relayHost, clientState, targetState, toTarget, rfb>>
    /\ UNCHANGED ctlVars /\ UNCHANGED sessions

\* targetWs.on('message')
TargetMessage(data, starts) ==
    /\ relayPc = "relaying"
    /\ targetState = "OPEN"
    /\ nmsgs < MaxMsgs
    /\ nbytes + Len(data) <= MaxBytes
    /\ LET tags == CutTags(data, starts, rfb.targetInCut, ServerCutText)
           blocked == Len(data) > 0 /\ data[1] = 3
           sent == ~blocked /\ clientState = "OPEN"
       IN  /\ toClient' = IF sent THEN Append(toClient, data) ELSE toClient
           /\ rfb' = [rfb EXCEPT
                  !.targetInCut = CarryAfter(data, starts, rfb.targetInCut, ServerCutText),
                  !.fromTarget = Append(@, data),
                  !.cutLeaked = @ \/ (sent /\ HasCut(tags)),
                  !.dataLost = @ \/ (blocked /\ HasOther(tags))]
    /\ lastRecv' = [from |-> "target", data |-> data]
    /\ nmsgs' = nmsgs + 1
    /\ nbytes' = nbytes + Len(data)
    /\ UNCHANGED <<relayPc, relayHost, clientState, targetState, toTarget>>
    /\ UNCHANGED ctlVars /\ UNCHANGED sessions

\* clientWs.on('close'): targetWs.close()
ClientClose ==
    /\ relayPc \in {"relaying", "closed"}
    /\ clientState \in {"OPEN", "CLOSING"}
    /\ clientState' = "CLOSED"
    /\ targetState' = IF targetState = "OPEN" THEN "CLOSING" ELSE targetState
    /\ relayPc' = "closed"
    /\ UNCHANGED <<relayHost, toTarget, toClient, lastRecv, nmsgs, nbytes, rfb>>
    /\ UNCHANGED ctlVars /\ UNCHANGED sessions

\* targetWs.on('close'): clientWs.close()
TargetClose ==
    /\ relayPc \in {"relaying", "closed"}
    /\ targetState \in {"OPEN", "CLOSING"}
    /\ targetState' = "CLOSED"
    /\ clientState' = IF clientState = "OPEN" THEN "CLOSING" ELSE clientState
    /\ relayPc' = "closed"
    /\ UNCHANGED <<relayHost, toTarget, toClient, lastRecv, nmsgs, nbytes, rfb>>
    /\ UNCHANGED ctlVars /\ UNCHANGED sessions

NextRelay ==
    \/ \E url \in UpgradeUrls : Upgrade(url)
    \/ SocketClose
    \/ TargetOpen
    \/ TargetError
    \/ \E data \in Buffers(MaxBytes - nbytes) : \E starts \in SUBSET (1..Len(data)) :
          ClientMessage(data, starts)
    \/ \E data \in Buffers(MaxBytes - nbytes) : \E starts \in SUBSET (1..Len(data)) :
          TargetMessage(data, starts)
    \/ ClientClose
    \/ TargetClose

C3_ClipboardNeverCrosses ==
    ~rfb.cutLeaked /\ ~rfb.dataLost

\* ================================================================== control plane
\* A container reference is a runtime id <<"id", n>> or a container name; the
\* runtime resolves either. NoRef stands for null.
NoRef == <<>>
\* A DATETIME column that is NULL.
NoTime == -1

Tokens == {"tok-A", "tok-X"}
AssignmentIds == {9}

\* ------------------------------------------------------------------ db.js
\* A lookup that ignores the token.
getEnrollmentByToken_AnyRow(token) ==
    IF DOMAIN enrollments = {} THEN 0 ELSE CHOOSE id \in DOMAIN enrollments : TRUE

\* SELECT ... FROM enrollments e ... WHERE e.access_token = ?
getEnrollmentByToken(token) ==
    LET S == {id \in DOMAIN enrollments : enrollments[id].access_token = token}
    IN  IF S = {} THEN 0 ELSE CHOOSE id \in S : TRUE

getEnrollment(id) ==
    IF id \in DOMAIN enrollments THEN id ELSE 0

\* UPDATE enrollments SET container_id = ?, container_status = ? WHERE id = ?
updateEnrollmentContainer(tbl, id, containerId, status) ==
    IF id \in DOMAIN tbl
    THEN [tbl EXCEPT ![id].container_id = containerId, ![id].container_status = status]
    ELSE tbl

\* DELETE FROM enrollments WHERE id = ?
deleteEnrollment(tbl, id) ==
    [k \in DOMAIN tbl \ {id} |-> tbl[k]]

\* A lookup without the is_exam condition.
getExamAssignment_AnyAssignment(id) ==
    IF id \in DOMAIN assignments THEN id ELSE 0

\* SELECT ... FROM assignments a ... WHERE a.id = ? AND a.is_exam = 1
getExamAssignment(id) ==
    IF id \in DOMAIN assignments /\ assignments[id].is_exam THEN id ELSE 0

\* A lookup with the two arguments exchanged.
getExamSessionByStudentAndAssignment_Swapped(tbl, studentId, assignmentId) ==
    LET S == {i \in DOMAIN tbl : tbl[i].student_id = assignmentId
                                   /\ tbl[i].assignment_id = studentId}
    IN  IF S = {} THEN 0 ELSE CHOOSE i \in S : \A j \in S : i <= j

\* SELECT * FROM exam_sessions WHERE student_id = ? AND assignment_id = ?
\* (.get(): the first row; 0 stands for undefined)
getExamSessionByStudentAndAssignment(tbl, studentId, assignmentId) ==
    LET S == {i \in DOMAIN tbl : tbl[i].student_id = studentId
                                   /\ tbl[i].assignment_id = assignmentId}
    IN  IF S = {} THEN 0 ELSE CHOOSE i \in S : \A j \in S : i <= j

\* An INSERT that leaves status to the column's DEFAULT 'pending'.
createExamSession_Pending(tbl, assignmentId, studentId) ==
    Append(tbl, [assignment_id |-> assignmentId, student_id |-> studentId,
                 container_id |-> NoRef, status |-> "pending",
                 ended_at |-> NoTime, ends |-> 0])

\* INSERT INTO exam_sessions (...) VALUES (?, ?, ?, 'active', datetime('now'))
createExamSession(tbl, assignmentId, studentId) ==
    Append(tbl, [assignment_id |-> assignmentId, student_id |-> studentId,
                 container_id |-> NoRef, status |-> "active",
                 ended_at |-> NoTime, ends |-> 0])

\* UPDATE exam_sessions SET container_id = ? WHERE id = ?
updateExamSessionContainer(tbl, id, containerId) ==
    IF id \in DOMAIN tbl THEN [tbl EXCEPT ![id].container_id = containerId] ELSE tbl

\* UPDATE exam_sessions SET status = 'completed', ended_at = datetime('now') WHERE id = ?
\* (`ends` is a ghost count of these writes)
endExamSession(tbl, id) ==
    IF id \in DOMAIN tbl
    THEN [tbl EXCEPT ![id].status = "completed", ![id].ended_at = now,
                     ![id].ends = @ + 1]
    ELSE tbl

SeqOfSet(S) ==
    LET RECURSIVE build(_)
        build(T) == IF T = {} THEN <<>>
                    ELSE LET m == CHOOSE x \in T : \A y \in T : x <= y
                         IN  <<m>> \o build(T \ {m})
    IN  build(S)

\* The rows of every exam session, whatever its status.
getActiveExamSessions_NoStatusFilter(tbl) ==
    [k \in 1..Len(tbl) |->
        [id |-> k, assignment_id |-> tbl[k].assignment_id,
         student_id |-> tbl[k].student_id, container_id |-> tbl[k].container_id,
         end_time |-> assignments[tbl[k].assignment_id].end_time]]

\* SELECT es.*, a.end_time ... FROM exam_sessions es JOIN assignments a ...
\* WHERE es.status = 'active'
getActiveExamSessions(tbl) ==
    LET ids == SeqOfSet({i \in DOMAIN tbl : tbl[i].status = "active"
                                             /\ tbl[i].assignment_id \in DOMAIN assignments})
    IN  [k \in 1..Len(ids) |->
            [id |-> ids[k], assignment_id |-> tbl[ids[k]].assignment_id,
             student_id |-> tbl[ids[k]].student_id,
             container_id |-> tbl[ids[k]].container_id,
             end_time |-> assignments[tbl[ids[k]].assignment_id].end_time]]

\* ------------------------------------------------------------------ registry
\* sessions.set(key, entry)
SessionsSet(reg, key, entry) ==
    [k \in DOMAIN reg \cup {key} |-> IF k = key THEN entry ELSE reg[k]]

\* sessions.delete(key)
SessionsDelete(reg, key) ==
    [k \in DOMAIN reg \ {key} |-> reg[k]]

\* ------------------------------------------------------------------ runtime
Resolve(ref) == {c \in containers : c.id = ref \/ c.name = ref}

\* docker.createContainer / container.inspect / start / stop / remove as the
\* runtime answers them: `cs` is the new container set, `reply` what the
\* awaiting handler gets ("error" is the rejected promise).
DockerResult(call) ==
    LET hit == Resolve(call.ref)
    IN  CASE call.op = "inspect" ->
               IF hit = {} THEN [cs |-> containers, reply |-> "error", running |-> FALSE, id |-> NoRef]
               ELSE LET c == CHOOSE c \in hit : TRUE
                    IN  [cs |-> containers, reply |-> "ok", running |-> c.running, id |-> c.id]
          [] call.op = "create" ->
               IF hit # {} THEN [cs |-> containers, reply |-> "error", running |-> FALSE, id |-> NoRef]
               ELSE LET c == [id |-> <<"id", ncreated + 1>>, name |-> call.ref,
                              running |-> FALSE, key |-> call.key]
                    IN  [cs |-> containers \cup {c}, reply |-> "ok", running |-> FALSE, id |-> c.id]
          [] call.op = "start" ->
               IF hit = {} \/ (\E c \in hit : c.running)
               THEN [cs |-> containers, reply |-> "error", running |-> FALSE, id |-> NoRef]
               ELSE LET c == CHOOSE c \in hit : TRUE
                    IN  [cs |-> (containers \ {c}) \cup {[c EXCEPT !.running = TRUE]},
                         reply |-> "ok", running |-> TRUE, id |-> c.id]
          [] call.op = "stop" ->
               IF hit = {} \/ (\E c \in hit : ~c.running)
               THEN [cs |-> containers, reply |-> "error", running |-> FALSE, id |-> NoRef]
               ELSE LET c == CHOOSE c \in hit : TRUE
                    IN  [cs |-> (containers \ {c}) \cup {[c EXCEPT !.running = FALSE]},
                         reply |-> "ok", running |-> FALSE, id |-> c.id]
          [] call.op = "remove" ->
               IF hit = {} \/ (\E c \in hit : c.running)
               THEN [cs |-> containers, reply |-> "error", running |-> FALSE, id |-> NoRef]
               ELSE [cs |-> containers \ hit, reply |-> "ok", running |-> FALSE, id |-> NoRef]

\* ------------------------------------------------------------------ requests
NoCall == [op |-> "none", ref |-> NoRef, key |-> NoRef]
NoReply == [status |-> "none", running |-> FALSE, id |-> NoRef]

IdleReq ==
    [kind |-> "none", pc |-> "idle", call |-> NoCall, reply |-> NoReply,
     eid |-> 0, esid |-> 0, key |-> NoRef, container |-> NoRef,
     snap |-> <<>>, idx |-> 0, nowAt |-> 0, terminated |-> 0,
     result |-> "none",
     \* ghost: the token it was called with, what it saw and did
     token |-> "none", saw |-> "none", creates |-> 0, starts |-> 0, wrote |-> FALSE,
     ended |-> {}, stopped |-> {}, selected |-> {}, doneAtStart |-> {},
     \* GET /api/sessions: the keys the Map iterator has passed, the response body
     visited |-> {}, list |-> <<>>,
     \* input: the exam_sessions rows whose UPDATE throws during this sweep
     throws |-> {}]

\* A new request takes the lowest free slot (the slots are interchangeable).
Takes(r) ==
    /\ req[r].pc \in {"idle", "done"}
    /\ \A q \in DOMAIN req : req[q].pc \in {"idle", "done"} => r <= q

\* The response is sent; the handler's locals are gone.
Finish(rec, result) ==
    [rec EXCEPT !.pc = "done", !.result = result, !.call = NoCall, !.reply = NoReply,
                !.eid = 0, !.esid = 0, !.container = NoRef,
                !.snap = <<>>, !.idx = 0, !.nowAt = 0]

Await(rec, op, ref) ==
    [rec EXCEPT !.pc = "call", !.call = [op |-> op, ref |-> ref, key |-> rec.key],
                !.reply = NoReply,
                !.creates = IF op = "create" THEN @ + 1 ELSE @,
                !.starts = IF op = "start" THEN @ + 1 ELSE @]

\* The runtime processes the call a handler awaits.
DockerCall(r) ==
    /\ req[r].pc = "call"
    /\ req[r].call.op = "create" => ncreated < MaxCreate
    /\ LET res == DockerResult(req[r].call)
       IN  /\ containers' = res.cs
           /\ ncreated' = IF req[r].call.op = "create" /\ res.reply = "ok"
                          THEN ncreated + 1 ELSE ncreated
           /\ req' = [req EXCEPT ![r].pc = "reply",
                         ![r].reply = [status |-> res.reply, running |-> res.running,
                                       id |-> res.id]]
    /\ UNCHANGED <<now, assignments, enrollments, examSessions, sessions>>
    /\ UNCHANGED relayVars

\* needsStart left false whatever inspect reports.
needsStart_Never(reply) == FALSE

\* if (!info.State.Running) needsStart = true, with needsStart always set.
needsStart_Always(reply) == TRUE

\* if (!info.State.Running) needsStart = true
needsStart(reply) == ~reply.running

\* A name made up per request instead of the deterministic one.
CreateOptionsName_PerRequest(rec, r) == <<"session", r>>

\* createContainer({ name: containerName, ... })
CreateOptionsName(rec, r) == rec.key

\* ---- GET /access/:token
AccessBegin(r, token) ==
    /\ Takes(r)
    /\ LET e == getEnrollmentByToken(token)
           rec == [IdleReq EXCEPT !.kind = "access", !.token = token]
       IN  IF e = 0
           THEN req' = [req EXCEPT ![r] = Finish(rec, "invalid-token")]
           ELSE LET name == getContainerName(enrollments[e])
                IN  req' = [req EXCEPT ![r] =
                               Await([rec EXCEPT !.eid = e, !.key = name], "inspect", name)]
    /\ UNCHANGED <<now, assignments, enrollments, examSessions, containers, ncreated, sessions>>
    /\ UNCHANGED relayVars

AccessCont(r) ==
    /\ req[r].kind = "access"
    /\ req[r].pc = "reply"
    /\ LET me == req[r]
           rep == me.reply
       IN  CASE me.call.op = "inspect" ->
                  IF rep.status = "error"
                  THEN /\ req' = [req EXCEPT ![r] =
                            Await([me EXCEPT !.saw = "missing"], "create",
                                  CreateOptionsName(me, r))]
                       /\ UNCHANGED <<enrollments, sessions>>
                  ELSE IF needsStart(rep)
                  THEN /\ req' = [req EXCEPT ![r] =
                            Await([me EXCEPT !.saw = IF rep.running THEN "running" ELSE "stopped",
                                             !.container = me.key], "start", me.key)]
                       /\ UNCHANGED <<enrollments, sessions>>
                  ELSE /\ sessions' = SessionsSet(sessions, me.key,
                                         [containerId |-> me.key, backing |-> me.eid])
                       /\ req' = [req EXCEPT ![r] =
                            Finish([me EXCEPT !.saw = "running", !.container = me.key],
                                   "redirect")]
                       /\ UNCHANGED enrollments
             [] me.call.op = "create" ->
                  IF rep.status = "error"
                  THEN /\ req' = [req EXCEPT ![r] = Finish(me, "error")]
                       /\ UNCHANGED <<enrollments, sessions>>
                  ELSE /\ enrollments' =
                            updateEnrollmentContainer(enrollments, me.eid, rep.id, "created")
                       /\ req' = [req EXCEPT ![r] =
                            Await([me EXCEPT !.container = rep.id, !.wrote = TRUE],
                                  "start", rep.id)]
                       /\ UNCHANGED sessions
             [] me.call.op = "start" ->
                  IF rep.status = "error"
                  THEN /\ req' = [req EXCEPT ![r] = Finish(me, "error")]
                       /\ UNCHANGED <<enrollments, sessions>>
                  ELSE /\ enrollments' =
                            updateEnrollmentContainer(enrollments, me.eid, me.container, "running")
                       /\ sessions' = SessionsSet(sessions, me.key,
                                         [containerId |-> me.container, backing |-> me.eid])
                       /\ req' = [req EXCEPT ![r] =
                            Finish([me EXCEPT !.wrote = TRUE], "redirect")]
    /\ UNCHANGED <<now, assignments, examSessions, containers, ncreated>>
    /\ UNCHANGED relayVars

\* The checks of the exam handler without the course test.
ExamOutcome_NoCourseCheck(assignmentId, token) ==
    LET e == getEnrollmentByToken(token)
        exam == getExamAssignment(assignmentId)
    IN  IF e = 0 THEN "invalid-token"
        ELSE IF exam = 0 THEN "not-found"
        ELSE IF assignments[exam].start_time # NoTime /\ assignments[exam].start_time > now
             THEN "not-started"
        ELSE IF assignments[exam].end_time # NoTime /\ assignments[exam].end_time < now
             THEN "ended"
        ELSE LET es == getExamSessionByStudentAndAssignment(
                           examSessions, enrollments[e].student_id, assignmentId)
             IN  IF es # 0 /\ examSessions[es].status = "completed"
                 THEN "already-submitted"
                 ELSE "proceed"

\* The checks of the exam handler without the completed test.
ExamOutcome_NoCompletedCheck(assignmentId, token) ==
    LET e == getEnrollmentByToken(token)
        exam == getExamAssignment(assignmentId)
    IN  IF e = 0 THEN "invalid-token"
        ELSE IF exam = 0 THEN "not-found"
        ELSE IF assignments[exam].course_id # enrollments[e].course_id THEN "forbidden"
        ELSE IF assignments[exam].start_time # NoTime /\ assignments[exam].start_time > now
             THEN "not-started"
        ELSE IF assignments[exam].end_time # NoTime /\ assignments[exam].end_time < now
             THEN "ended"
        ELSE "proceed"

\* The checks of the exam handler with the completed test ahead of the window.
ExamOutcome_CompletedFirst(assignmentId, token) ==
    LET e == getEnrollmentByToken(token)
        exam == getExamAssignment(assignmentId)
    IN  IF e = 0 THEN "invalid-token"
        ELSE IF exam = 0 THEN "not-found"
        ELSE IF assignments[exam].course_id # enrollments[e].course_id THEN "forbidden"
        ELSE LET es == getExamSessionByStudentAndAssignment(
                           examSessions, enrollments[e].student_id, assignmentId)
             IN  IF es # 0 /\ examSessions[es].status = "completed"
                 THEN "already-submitted"
                 ELSE IF assignments[exam].start_time # NoTime
                         /\ assignments[exam].start_time > now
                 THEN "not-started"
                 ELSE IF assignments[exam].end_time # NoTime
                         /\ assignments[exam].end_time < now
                 THEN "ended"
                 ELSE "proceed"

\* The checks of the exam handler with the start comparison reversed.
ExamOutcome_StartReversed(assignmentId, token) ==
    LET e == getEnrollmentByToken(token)
        exam == getExamAssignment(assignmentId)
    IN  IF e = 0 THEN "invalid-token"
        ELSE IF exam = 0 THEN "not-found"
        ELSE IF assignments[exam].course_id # enrollments[e].course_id THEN "forbidden"
        ELSE IF assignments[exam].start_time # NoTime /\ assignments[exam].start_time < now
             THEN "not-started"
        ELSE IF assignments[exam].end_time # NoTime /\ assignments[exam].end_time < now
             THEN "ended"
        ELSE LET es == getExamSessionByStudentAndAssignment(
                           examSessions, enrollments[e].student_id, assignmentId)
             IN  IF es # 0 /\ examSessions[es].status = "completed"
                 THEN "already-submitted"
                 ELSE "proceed"

\* The checks of the exam handler with the end of the window excluded.
ExamOutcome_EndExclusive(assignmentId, token) ==
    LET e == getEnrollmentByToken(token)
        exam == getExamAssignment(assignmentId)
    IN  IF e = 0 THEN "invalid-token"
        ELSE IF exam = 0 THEN "not-found"
        ELSE IF assignments[exam].course_id # enrollments[e].course_id THEN "forbidden"
        ELSE IF assignments[exam].start_time # NoTime /\ assignments[exam].start_time > now
             THEN "not-started"
        ELSE IF assignments[exam].end_time # NoTime /\ assignments[exam].end_time <= now
             THEN "ended"
        ELSE LET es == getExamSessionByStudentAndAssignment(
                           examSessions, enrollments[e].student_id, assignmentId)
             IN  IF es # 0 /\ examSessions[es].status = "completed"
                 THEN "already-submitted"
                 ELSE "proceed"

\* ---- GET /exam/:assignmentId/:token
\* The synchronous part up to the first await: the checks, the ExamSession
\* lookup and insert, and the inspect call.
ExamOutcome(assignmentId, token) ==
    LET e == getEnrollmentByToken(token)
        exam == getExamAssignment(assignmentId)
    IN  IF e = 0 THEN "invalid-token"
        ELSE IF exam = 0 THEN "not-found"
        ELSE IF assignments[exam].course_id # enrollments[e].course_id THEN "forbidden"
        ELSE IF assignments[exam].start_time # NoTime /\ assignments[exam].start_time > now
             THEN "not-started"
        ELSE IF assignments[exam].end_time # NoTime /\ assignments[exam].end_time < now
             THEN "ended"
        ELSE LET es == getExamSessionByStudentAndAssignment(
                           examSessions, enrollments[e].student_id, assignmentId)
             IN  IF es # 0 /\ examSessions[es].status = "completed"
                 THEN "already-submitted"
                 ELSE "proceed"

ExamBegin(r, assignmentId, token) ==
    /\ Takes(r)
    /\ LET out == ExamOutcome(assignmentId, token)
           rec == [IdleReq EXCEPT !.kind = "exam", !.token = token]
       IN  IF out # "proceed"
           THEN /\ req' = [req EXCEPT ![r] = Finish(rec, out)]
                /\ UNCHANGED examSessions
           ELSE LET e == getEnrollmentByToken(token)
                    student == enrollments[e].student_id
                    es == getExamSessionByStudentAndAssignment(
                              examSessions, student, assignmentId)
                    name == examContainerName(assignmentId, student)
                IN  /\ examSessions' = IF es = 0
                                       THEN createExamSession(examSessions, assignmentId, student)
                                       ELSE examSessions
                    /\ req' = [req EXCEPT ![r] =
                          Await([rec EXCEPT !.eid = e, !.key = name,
                                            !.esid = IF es = 0 THEN Len(examSessions) + 1 ELSE es],
                                "inspect", name)]
    /\ UNCHANGED <<now, assignments, enrollments, containers, ncreated, sessions>>
    /\ UNCHANGED relayVars

\* The exam handler registering the session as soon as the container is created.
ExamCont_RegistersBeforeStart(r) ==
    /\ req[r].kind = "exam"
    /\ req[r].pc = "reply"
    /\ LET me == req[r]
           rep == me.reply
       IN  CASE me.call.op = "inspect" ->
                  IF rep.status = "error"
                  THEN /\ req' = [req EXCEPT ![r] =
                            Await([me EXCEPT !.saw = "missing"], "create",
                                  CreateOptionsName(me, r))]
                       /\ UNCHANGED <<examSessions, sessions>>
                  ELSE IF needsStart(rep)
                  THEN /\ req' = [req EXCEPT ![r] =
                            Await([me EXCEPT !.saw = IF rep.running THEN "running" ELSE "stopped",
                                             !.container = me.key], "start", me.key)]
                       /\ UNCHANGED <<examSessions, sessions>>
                  ELSE /\ sessions' = SessionsSet(sessions, me.key,
                                         [containerId |-> me.key, backing |-> me.esid])
                       /\ req' = [req EXCEPT ![r] =
                            Finish([me EXCEPT !.saw = "running", !.container = me.key],
                                   "redirect")]
                       /\ UNCHANGED examSessions
             [] me.call.op = "create" ->
                  IF rep.status = "error"
                  THEN /\ req' = [req EXCEPT ![r] = Finish(me, "error")]
                       /\ UNCHANGED <<examSessions, sessions>>
                  ELSE /\ examSessions' =
                            updateExamSessionContainer(examSessions, me.esid, rep.id)
                       /\ req' = [req EXCEPT ![r] =
                            Await([me EXCEPT !.container = rep.id, !.wrote = TRUE],
                                  "start", rep.id)]
                       /\ sessions' = SessionsSet(sessions, me.key,
                                         [containerId |-> rep.id, backing |-> me.esid])
             [] me.call.op = "start" ->
                  IF rep.status = "error"
                  THEN /\ req' = [req EXCEPT ![r] = Finish(me, "error")]
                       /\ UNCHANGED <<examSessions, sessions>>
                  ELSE /\ sessions' = SessionsSet(sessions, me.key,
                                         [containerId |-> me.container, backing |-> me.esid])
                       /\ req' = [req EXCEPT ![r] = Finish(me, "redirect")]
                       /\ UNCHANGED examSessions
    /\ UNCHANGED <<now, assignments, enrollments, containers, ncreated>>
    /\ UNCHANGED relayVars

\* The exam handler after each of its awaits.
ExamCont(r) ==
    /\ req[r].kind = "exam"
    /\ req[r].pc = "reply"
    /\ LET me == req[r]
           rep == me.reply
       IN  CASE me.call.op = "inspect" ->
                  IF rep.status = "error"
                  THEN /\ req' = [req EXCEPT ![r] =
                            Await([me EXCEPT !.saw = "missing"], "create",
                                  CreateOptionsName(me, r))]
                       /\ UNCHANGED <<examSessions, sessions>>
                  ELSE IF needsStart(rep)
                  THEN /\ req' = [req EXCEPT ![r] =
                            Await([me EXCEPT !.saw = IF rep.running THEN "running" ELSE "stopped",
                                             !.container = me.key], "start", me.key)]
                       /\ UNCHANGED <<examSessions, sessions>>
                  ELSE /\ sessions' = SessionsSet(sessions, me.key,
                                         [containerId |-> me.key, backing |-> me.esid])
                       /\ req' = [req EXCEPT ![r] =
                            Finish([me EXCEPT !.saw = "running", !.container = me.key],
                                   "redirect")]
                       /\ UNCHANGED examSessions
             [] me.call.op = "create" ->
                  IF rep.status = "error"
                  THEN /\ req' = [req EXCEPT ![r] = Finish(me, "error")]
                       /\ UNCHANGED <<examSessions, sessions>>
                  ELSE /\ examSessions' =
                            updateExamSessionContainer(examSessions, me.esid, rep.id)
                       /\ req' = [req EXCEPT ![r] =
                            Await([me EXCEPT !.container = rep.id, !.wrote = TRUE],
                                  "start", rep.id)]
                       /\ UNCHANGED sessions
             [] me.call.op = "start" ->
                  IF rep.status = "error"
                  THEN /\ req' = [req EXCEPT ![r] = Finish(me, "error")]
                       /\ UNCHANGED <<examSessions, sessions>>
                  ELSE /\ sessions' = SessionsSet(sessions, me.key,
                                         [containerId |-> me.container, backing |-> me.esid])
                       /\ req' = [req EXCEPT ![r] = Finish(me, "redirect")]
                       /\ UNCHANGED examSessions
    /\ UNCHANGED <<now, assignments, enrollments, containers, ncreated>>
    /\ UNCHANGED relayVars

\* catch (containerErr) { console.log(...) }: a rejected cleanup call is logged
\* and the handler goes on (ghost: `saw` remembers that it happened).
Swallow(rec) ==
    IF rec.reply.status = "error" THEN [rec EXCEPT !.saw = "failed"] ELSE rec

\* ---- POST /api/enrollments/:id/start
StartBegin(r, id) ==
    /\ Takes(r)
    /\ LET e == getEnrollment(id)
           rec == [IdleReq EXCEPT !.kind = "start"]
       IN  IF e = 0
           THEN req' = [req EXCEPT ![r] = Finish(rec, "not-found")]
           ELSE LET name == getContainerName(enrollments[e])
                IN  req' = [req EXCEPT ![r] =
                          Await([rec EXCEPT !.eid = e, !.key = name, !.container = name],
                                "inspect", name)]
    /\ UNCHANGED <<now, assignments, enrollments, examSessions, containers, ncreated, sessions>>
    /\ UNCHANGED relayVars

\* The start handler after each of its awaits: a rejected inspect is answered
\* 400, and start() follows an inspect that resolved, whatever it reported.
StartCont(r) ==
    /\ req[r].kind = "start"
    /\ req[r].pc = "reply"
    /\ LET me == req[r]
           rep == me.reply
       IN  CASE me.call.op = "inspect" ->
                  /\ req' = [req EXCEPT ![r] =
                        IF rep.status = "error"
                        THEN Finish([me EXCEPT !.saw = "missing"], "not-created")
                        ELSE Await([me EXCEPT !.saw = IF rep.running THEN "running"
                                                      ELSE "stopped"],
                                   "start", me.key)]
                  /\ UNCHANGED <<enrollments, sessions>>
             [] me.call.op = "start" ->
                  IF rep.status = "error"
                  THEN /\ req' = [req EXCEPT ![r] = Finish(me, "error")]
                       /\ UNCHANGED <<enrollments, sessions>>
                  ELSE /\ enrollments' =
                            updateEnrollmentContainer(enrollments, me.eid, me.container, "running")
                       /\ sessions' = SessionsSet(sessions, me.key,
                                         [containerId |-> me.container, backing |-> me.eid])
                       /\ req' = [req EXCEPT ![r] =
                            Finish([me EXCEPT !.wrote = TRUE], "running")]
    /\ UNCHANGED <<now, assignments, examSessions, containers, ncreated>>
    /\ UNCHANGED relayVars

\* ---- POST /api/enrollments/:id/stop
StopBegin(r, id) ==
    /\ Takes(r)
    /\ LET e == getEnrollment(id)
           rec == [IdleReq EXCEPT !.kind = "stop"]
       IN  IF e = 0
           THEN req' = [req EXCEPT ![r] = Finish(rec, "not-found")]
           ELSE LET name == getContainerName(enrollments[e])
                IN  req' = [req EXCEPT ![r] =
                          Await([rec EXCEPT !.eid = e, !.key = name,
                                            !.container = enrollments[e].container_id],
                                "stop", name)]
    /\ UNCHANGED <<now, assignments, enrollments, examSessions, containers, ncreated, sessions>>
    /\ UNCHANGED relayVars

StopCont(r) ==
    /\ req[r].kind = "stop"
    /\ req[r].pc = "reply"
    /\ LET me == req[r]
       IN  IF me.reply.status = "ok"
           THEN /\ enrollments' =
                     updateEnrollmentContainer(enrollments, me.eid, me.container, "stopped")
                /\ sessions' = SessionsDelete(sessions, me.key)
                /\ req' = [req EXCEPT ![r] = Finish([me EXCEPT !.wrote = TRUE], "stopped")]
           ELSE /\ req' = [req EXCEPT ![r] = Finish(me, "stopped")]
                /\ UNCHANGED <<enrollments, sessions>>
    /\ UNCHANGED <<now, assignments, examSessions, containers, ncreated>>
    /\ UNCHANGED relayVars

\* ---- DELETE /api/courses/:courseId/enrollments/:enrollmentId
DeleteBegin(r, id) ==
    /\ Takes(r)
    /\ LET e == getEnrollment(id)
           rec == [IdleReq EXCEPT !.kind = "delete"]
       IN  IF e = 0
           THEN /\ req' = [req EXCEPT ![r] = Finish(rec, "not-found")]
                /\ UNCHANGED enrollments
           ELSE IF enrollments[e].container_id # NoRef
           THEN /\ req' = [req EXCEPT ![r] =
                          Await([rec EXCEPT !.eid = e], "stop", enrollments[e].container_id)]
                /\ UNCHANGED enrollments
           ELSE /\ enrollments' = deleteEnrollment(enrollments, e)
                /\ req' = [req EXCEPT ![r] = Finish(rec, "deleted")]
    /\ UNCHANGED <<now, assignments, examSessions, containers, ncreated, sessions>>
    /\ UNCHANGED relayVars

\* The deletion handler without the inner try/catch: a rejected stop or
\* remove reaches the outer catch, which answers 500.
DeleteCont_Propagates(r) ==
    /\ req[r].kind = "delete"
    /\ req[r].pc = "reply"
    /\ LET me == req[r]
       IN  IF me.reply.status = "error"
           THEN /\ req' = [req EXCEPT ![r] = Finish(Swallow(me), "error")]
                /\ UNCHANGED enrollments
           ELSE IF me.call.op = "stop"
           THEN /\ req' = [req EXCEPT ![r] = Await(me, "remove", me.call.ref)]
                /\ UNCHANGED enrollments
           ELSE /\ enrollments' = deleteEnrollment(enrollments, me.eid)
                /\ req' = [req EXCEPT ![r] = Finish(me, "deleted")]
    /\ UNCHANGED <<now, assignments, examSessions, containers, ncreated, sessions>>
    /\ UNCHANGED relayVars

DeleteCont(r) ==
    /\ req[r].kind = "delete"
    /\ req[r].pc = "reply"
    /\ LET me == req[r]
       IN  IF me.call.op = "stop" /\ me.reply.status = "ok"
           THEN /\ req' = [req EXCEPT ![r] = Await(me, "remove", me.call.ref)]
                /\ UNCHANGED enrollments
           ELSE /\ enrollments' = deleteEnrollment(enrollments, me.eid)
                /\ req' = [req EXCEPT ![r] = Finish(Swallow(me), "deleted")]
    /\ UNCHANGED <<now, assignments, examSessions, containers, ncreated, sessions>>
    /\ UNCHANGED relayVars

\* ---- the readiness probe: GET /api/sessions/:id/status and
\* GET /api/enrollments/:id/ready
\* The probe that takes a timeout for readiness.
ProbeReady_TimeoutIsReady(event) == event \in {"connect", "timeout"}

\* socket.on('connect', ... resolve(true)); socket.on('error', () =>
\* resolve(false)); socket.on('timeout', ... resolve(false))
ProbeReady(event) == event = "connect"

\* socket.connect(6080, containerName): the handler awaits the promise.
Probing(rec, host) ==
    [rec EXCEPT !.pc = "probe", !.container = host]

StatusBegin(r, id) ==
    /\ Takes(r)
    /\ LET rec == [IdleReq EXCEPT !.kind = "status", !.key = id]
       IN  IF id \notin DOMAIN sessions
           THEN req' = [req EXCEPT ![r] = Finish(rec, "not-found")]
           ELSE req' = [req EXCEPT ![r] = Probing(rec, ContainerHost(id))]
    /\ UNCHANGED <<now, assignments, enrollments, examSessions, containers, ncreated, sessions>>
    /\ UNCHANGED relayVars

ReadyBegin(r, id) ==
    /\ Takes(r)
    /\ LET e == getEnrollment(id)
           rec == [IdleReq EXCEPT !.kind = "ready"]
       IN  IF e = 0
           THEN req' = [req EXCEPT ![r] = Finish(rec, "not-found")]
           ELSE LET name == getContainerName(enrollments[e])
                IN  req' = [req EXCEPT ![r] =
                               Probing([rec EXCEPT !.eid = e, !.key = name], name)]
    /\ UNCHANGED <<now, assignments, enrollments, examSessions, containers, ncreated, sessions>>
    /\ UNCHANGED relayVars

\* The socket's one event settles the promise and the response is sent:
\* { status: ready ? 'ready' : 'starting' } or { ready }. A connection is only
\* established to a running container of the probed name; a refusal, a
\* failed name lookup or any other error, and the 1000 ms timeout, can end
\* any probe. (ghost: `saw` keeps the event.)
SocketEvent(r, event) ==
    /\ req[r].pc = "probe"
    /\ event = "connect" => \E c \in containers : c.name = req[r].container /\ c.running
    /\ LET me == [req[r] EXCEPT !.saw = event]
       IN  req' = [req EXCEPT ![r] =
                     Finish(me, IF ProbeReady(event) THEN "ready" ELSE "starting")]
    /\ UNCHANGED <<now, assignments, enrollments, examSessions, containers, ncreated, sessions>>
    /\ UNCHANGED relayVars

SocketEvents == {"connect", "error", "timeout"}

\* ---- GET /api/sessions
\* for (const [id, session] of sessions): the iterator moves on to an entry
\* it has not passed (in the Map's insertion order, which the model leaves
\* open), or the loop ends and res.json(sessionList) is sent.
ListNext(r, rec, reg) ==
    LET rest == DOMAIN reg \ rec.visited
    IN  IF rest = {}
        THEN req' = [req EXCEPT ![r] = Finish(rec, "listed")]
        ELSE \E id \in rest :
                req' = [req EXCEPT ![r] =
                          Await([rec EXCEPT !.key = id, !.visited = @ \cup {id}],
                                "inspect", reg[id].containerId)]

ListBegin(r) ==
    /\ Takes(r)
    /\ ListNext(r, [IdleReq EXCEPT !.kind = "list"], sessions)
    /\ UNCHANGED <<now, assignments, enrollments, examSessions, containers, ncreated, sessions>>
    /\ UNCHANGED relayVars

\* The listing that answers for a dead entry instead of forgetting it.
ListCont_KeepsDead(r) ==
    /\ req[r].kind = "list"
    /\ req[r].pc = "reply"
    /\ LET me == req[r]
           item == [id |-> me.key,
                    status |-> IF me.reply.status = "ok" /\ me.reply.running
                               THEN "running" ELSE "stopped"]
       IN  /\ sessions' = sessions
           /\ ListNext(r, [me EXCEPT !.list = Append(@, item)], sessions)
    /\ UNCHANGED <<now, assignments, enrollments, examSessions, containers, ncreated>>
    /\ UNCHANGED relayVars

\* After await container.inspect(): sessionList.push({...}) or, in the catch,
\* sessions.delete(id); then the next iteration.
ListCont(r) ==
    /\ req[r].kind = "list"
    /\ req[r].pc = "reply"
    /\ LET me == req[r]
           item == [id |-> me.key,
                    status |-> IF me.reply.running THEN "running" ELSE "stopped"]
       IN  IF me.reply.status = "ok"
           THEN /\ sessions' = sessions
                /\ ListNext(r, [me EXCEPT !.list = Append(@, item)], sessions)
           ELSE /\ sessions' = SessionsDelete(sessions, me.key)
                /\ ListNext(r, Swallow(me), SessionsDelete(sessions, me.key))
    /\ UNCHANGED <<now, assignments, enrollments, examSessions, containers, ncreated>>
    /\ UNCHANGED relayVars

\* ---- the runtime on its own: a container's process exits, or a container is
\* removed by someone other than the gateway.
ContainerExits(c) ==
    /\ c \in containers /\ c.running
    /\ containers' = (containers \ {c}) \cup {[c EXCEPT !.running = FALSE]}
    /\ UNCHANGED <<now, assignments, enrollments, examSessions, ncreated, sessions, req>>
    /\ UNCHANGED relayVars

ContainerVanishes(c) ==
    /\ c \in containers
    /\ containers' = containers \ {c}
    /\ UNCHANGED <<now, assignments, enrollments, examSessions, ncreated, sessions, req>>
    /\ UNCHANGED relayVars

\* ---- DELETE /api/sessions/:id
EndSessionBegin(r, id) ==
    /\ Takes(r)
    /\ LET rec == [IdleReq EXCEPT !.kind = "endSession"]
       IN  IF id \notin DOMAIN sessions
           THEN req' = [req EXCEPT ![r] = Finish(rec, "not-found")]
           ELSE req' = [req EXCEPT ![r] =
                          Await([rec EXCEPT !.key = id,
                                            !.container = sessions[id].containerId],
                                "stop", sessions[id].containerId)]
    /\ UNCHANGED <<now, assignments, enrollments, examSessions, containers, ncreated, sessions>>
    /\ UNCHANGED relayVars

\* stop and remove each have their own try/catch: remove is called whatever
\* stop answered, then sessions.delete(id).
EndSessionCont(r) ==
    /\ req[r].kind = "endSession"
    /\ req[r].pc = "reply"
    /\ LET me == req[r]
       IN  IF me.call.op = "stop"
           THEN /\ req' = [req EXCEPT ![r] = Await(Swallow(me), "remove", me.container)]
                /\ UNCHANGED sessions
           ELSE /\ sessions' = SessionsDelete(sessions, me.key)
                /\ req' = [req EXCEPT ![r] = Finish(Swallow(me), "success")]
    /\ UNCHANGED <<now, assignments, enrollments, examSessions, containers, ncreated>>
    /\ UNCHANGED relayVars

\* ---- POST /api/exam-sessions/:id/end (professor action)
\* db.endExamSession(session.id); sessions.delete(containerName)
ForceEndFinish(r, me, id) ==
    /\ examSessions' = endExamSession(examSessions, id)
    /\ sessions' = SessionsDelete(sessions,
                       examContainerName(examSessions[id].assignment_id,
                                         examSessions[id].student_id))
    /\ req' = [req EXCEPT ![r] = Finish([me EXCEPT !.ended = {id}], "ended")]

ForceEndBegin(r, id) ==
    /\ Takes(r)
    /\ id \in DOMAIN examSessions => examSessions[id].ends < MaxEnds
    /\ LET rec == [IdleReq EXCEPT !.kind = "end"]
       IN  IF id \notin DOMAIN examSessions
           THEN /\ req' = [req EXCEPT ![r] = Finish(rec, "not-found")]
                /\ UNCHANGED <<examSessions, sessions>>
           ELSE IF examSessions[id].container_id # NoRef
           THEN /\ req' = [req EXCEPT ![r] =
                          Await([rec EXCEPT !.esid = id], "stop",
                                examSessions[id].container_id)]
                /\ UNCHANGED <<examSessions, sessions>>
           ELSE ForceEndFinish(r, rec, id)
    /\ UNCHANGED <<now, assignments, enrollments, containers, ncreated>>
    /\ UNCHANGED relayVars

ForceEndCont(r) ==
    /\ req[r].kind = "end"
    /\ req[r].pc = "reply"
    /\ LET me == req[r]
       IN  IF me.call.op = "stop" /\ me.reply.status = "ok"
           THEN /\ req' = [req EXCEPT ![r] = Await(me, "remove", me.call.ref)]
                /\ UNCHANGED <<examSessions, sessions>>
           ELSE ForceEndFinish(r, Swallow(me), me.esid)
    /\ UNCHANGED <<now, assignments, enrollments, containers, ncreated>>
    /\ UNCHANGED relayVars

\* ---- the expiry sweep: setInterval callback and POST /api/exam-sessions/check-expired
\* db.endExamSession(session.id); sessions.delete(containerName); terminated++
SweepTerminate(st, i) ==
    LET sess == st.rec.snap[i]
    IN  [rec |-> [st.rec EXCEPT !.terminated = @ + 1, !.ended = @ \cup {sess.id}],
         es |-> endExamSession(st.es, sess.id),
         reg |-> SessionsDelete(st.reg, examContainerName(sess.assignment_id, sess.student_id))]

\* The expiry test with the end of the window itself counted as past.
SweepExpired_Inclusive(sess, nowAt) ==
    sess.end_time # NoTime /\ sess.end_time <= nowAt

\* if (session.end_time && new Date(session.end_time) < now)
SweepExpired(sess, nowAt) ==
    sess.end_time # NoTime /\ sess.end_time < nowAt

\* The for-loop from entry i up to its next await or its end.
RECURSIVE SweepLoop(_, _)
RECURSIVE SweepEnd(_, _)
SweepLoop(st, i) ==
    IF i > Len(st.rec.snap)
    THEN [st EXCEPT !.rec = Finish(st.rec, "swept")]
    ELSE LET sess == st.rec.snap[i]
         IN  IF SweepExpired(sess, st.rec.nowAt)
             THEN IF sess.container_id # NoRef
                  THEN [st EXCEPT !.rec =
                          Await([st.rec EXCEPT !.idx = i,
                                               !.stopped = @ \cup {sess.container_id}],
                                "stop", sess.container_id)]
                  ELSE SweepEnd(st, i)
             ELSE SweepLoop(st, i + 1)

\* Entry i after its container calls: db.endExamSession and sessions.delete,
\* then the next entry. An exception of db.endExamSession is caught by the
\* try around the whole loop, which logs it (timer) or answers 500.
SweepEnd(st, i) ==
    IF st.rec.snap[i].id \in st.rec.throws
    THEN [st EXCEPT !.rec = Finish(st.rec, "error")]
    ELSE SweepLoop(SweepTerminate(st, i), i + 1)

\* A sweep during which the UPDATE of the rows in `throws` fails.
SweepStart(r, throws) ==
    /\ Takes(r)
    /\ LET snap == getActiveExamSessions(examSessions)
           rec == [IdleReq EXCEPT !.kind = "sweep", !.snap = snap, !.nowAt = now,
                      !.throws = throws,
                      !.selected = {snap[k].id : k \in DOMAIN snap},
                      !.doneAtStart = {i \in DOMAIN examSessions :
                                          examSessions[i].status = "completed"}]
           st == SweepLoop([rec |-> rec, es |-> examSessions, reg |-> sessions], 1)
       IN  /\ req' = [req EXCEPT ![r] = st.rec]
           /\ examSessions' = st.es
           /\ sessions' = st.reg
    /\ UNCHANGED <<now, assignments, enrollments, containers, ncreated>>
    /\ UNCHANGED relayVars

\* A sweep during which the durable store works.
SweepBegin(r) == SweepStart(r, {})

\* The sweep that leaves a session for a later tick when its container could
\* not be stopped.
SweepCont_RetriesLater(r) ==
    /\ req[r].kind = "sweep"
    /\ req[r].pc = "reply"
    /\ LET me == req[r]
           st0 == [rec |-> me, es |-> examSessions, reg |-> sessions]
           st == IF me.call.op = "stop" /\ me.reply.status = "ok"
                 THEN [st0 EXCEPT !.rec = Await(me, "remove", me.call.ref)]
                 ELSE IF me.reply.status = "error"
                 THEN SweepLoop([st0 EXCEPT !.rec = Swallow(me)], me.idx + 1)
                 ELSE SweepEnd(st0, me.idx)
       IN  /\ req' = [req EXCEPT ![r] = st.rec]
           /\ examSessions' = st.es
           /\ sessions' = st.reg
    /\ UNCHANGED <<now, assignments, enrollments, containers, ncreated>>
    /\ UNCHANGED relayVars

SweepCont(r) ==
    /\ req[r].kind = "sweep"
    /\ req[r].pc = "reply"
    /\ LET me == req[r]
           st0 == [rec |-> me, es |-> examSessions, reg |-> sessions]
           st == IF me.call.op = "stop" /\ me.reply.status = "ok"
                 THEN [st0 EXCEPT !.rec = Await(me, "remove", me.call.ref)]
                 ELSE SweepEnd([st0 EXCEPT !.rec = Swallow(me)], me.idx)
       IN  /\ req' = [req EXCEPT ![r] = st.rec]
           /\ examSessions' = st.es
           /\ sessions' = st.reg
    /\ UNCHANGED <<now, assignments, enrollments, containers, ncreated>>
    /\ UNCHANGED relayVars

\* setInterval(async () => {...}, 60000)
TimerTick(r) == SweepBegin(r)

\* POST /api/exam-sessions/check-expired: the same loop, answering
\* { terminated, checked }.
CheckExpired(r) == SweepBegin(r)

\* ---- PUT /api/assignments/:id: the professor saves the exam with another
\* window (start_time || null, end_time || null; the order is not validated).
UpdateAssignment(a, w) ==
    /\ a \in DOMAIN assignments
    /\ assignments' = [assignments EXCEPT ![a].start_time = w[1], ![a].end_time = w[2]]
    /\ assignments' # assignments
    /\ UNCHANGED <<now, enrollments, examSessions, containers, ncreated, sessions, req>>
    /\ UNCHANGED relayVars

\* Time passes.
Tick ==
    /\ now < MaxTime
    /\ now' = now + 1
    /\ UNCHANGED <<assignments, enrollments, examSessions, containers, ncreated, sessions, req>>
    /\ UNCHANGED relayVars

\* ------------------------------------------------------------------ specifications
Slots == 1..NumReq

\* Exam 9 of course 3 and the windows it may have been given (start, end).
ExamWindows == {<<1, 2>>, <<2, 1>>}

InitGateway ==
    /\ InitRelay
    /\ now = 0
    /\ \E w \in ExamWindows :
          assignments = (9 :> [course_id |-> 3, is_exam |-> TRUE,
                               start_time |-> w[1], end_time |-> w[2]])
    /\ enrollments =
          (1 :> [student_id |-> 4, course_id |-> 3, access_token |-> "tok-A",
                 container_id |-> NoRef, container_status |-> "stopped"])
    /\ examSessions = <<>>
    /\ containers = {}
    /\ ncreated = 0
    /\ sessions = <<>>
    /\ req = [r \in Slots |-> IdleReq]

NextAccess ==
    \/ \E r \in Slots : \E token \in Tokens : AccessBegin(r, token)
    \/ \E r \in Slots : AccessCont(r)
    \/ \E r \in Slots : \E id \in {1, 2} : StopBegin(r, id)
    \/ \E r \in Slots : StopCont(r)
    \/ \E r \in Slots : DockerCall(r)

NextExam ==
    \/ \E r \in Slots : \E a \in AssignmentIds : \E token \in Tokens : ExamBegin(r, a, token)
    \/ \E r \in Slots : ExamCont(r)
    \/ \E r \in Slots : TimerTick(r)
    \/ \E r \in Slots : CheckExpired(r)
    \/ \E r \in Slots : SweepCont(r)
    \/ \E r \in Slots : DockerCall(r)
    \/ Tick

\* The regular access path and the stop action.
SpecAccess == InitGateway /\ [][NextAccess]_vars

\* The exam access path, the expiry sweep and the clock.
SpecExam == InitGateway /\ [][NextExam]_vars

\* The relay alone, against a registry left by earlier accesses.
InitRelayOnly ==
    /\ InitRelay
    /\ now = 0
    /\ assignments = <<>>
    /\ enrollments = <<>>
    /\ examSessions = <<>>
    /\ containers = {}
    /\ ncreated = 0
    /\ req = <<>>
    /\ sessions \in {
          [k \in {<<"lms", 3, 7>>, <<"exam", 9, 4>>} |-> [containerId |-> k, backing |-> 1]],
          [k \in {<<"lms", 3, 7>>} |-> [containerId |-> k, backing |-> 1]] }

SpecRelay == InitRelayOnly /\ [][NextRelay]_vars

\* The relay with the steps that the gateway and the two WebSocket
\* connections take on their own: an outbound connect attempt is answered, a
\* started closing handshake completes.
SpecRelayFair ==
    /\ InitRelayOnly
    /\ [][NextRelay]_vars
    /\ WF_vars(TargetOpen)
    /\ WF_vars(ClientClose)
    /\ WF_vars(TargetClose)

\* The two access paths side by side, while the exam is open.
NextEnsure ==
    \/ \E r \in Slots : \E token \in Tokens : AccessBegin(r, token)
    \/ \E r \in Slots : AccessCont(r)
    \/ \E r \in Slots : \E a \in AssignmentIds : \E token \in Tokens : ExamBegin(r, a, token)
    \/ \E r \in Slots : ExamCont(r)
    \/ \E r \in Slots : DockerCall(r)

\* The gateway started while the exam's window [1, 2] is open.
InitEnsure ==
    /\ InitRelay
    /\ now = 1
    /\ assignments = (9 :> [course_id |-> 3, is_exam |-> TRUE,
                            start_time |-> 1, end_time |-> 2])
    /\ enrollments =
          (1 :> [student_id |-> 4, course_id |-> 3, access_token |-> "tok-A",
                 container_id |-> NoRef, container_status |-> "stopped"])
    /\ examSessions = <<>>
    /\ containers = {}
    /\ ncreated = 0
    /\ sessions = <<>>
    /\ req = [r \in Slots |-> IdleReq]

SpecEnsure == InitEnsure /\ [][NextEnsure]_vars

\* No request is in flight.
Quiet == \A q \in Slots : req[q].pc \in {"idle", "done"}

\* Regular accesses and stops one after the other: a call begins only when
\* the one before it has been answered.
NextAccessSeq ==
    \/ \E r \in Slots : \E token \in Tokens : Quiet /\ AccessBegin(r, token)
    \/ \E r \in Slots : AccessCont(r)
    \/ \E r \in Slots : \E id \in {1, 2} : Quiet /\ StopBegin(r, id)
    \/ \E r \in Slots : StopCont(r)
    \/ \E r \in Slots : DockerCall(r)

SpecAccessSeq == InitGateway /\ [][NextAccessSeq]_vars

\* The two access paths and the connections a browser then opens for the
\* keys they registered (without the message pumps).
NextRoute ==
    \/ NextEnsure
    \/ \E k \in DOMAIN sessions : Upgrade(<<"vnc", k, "websockify">>)
    \/ SocketClose
    \/ TargetOpen
    \/ TargetError
    \/ ClientClose
    \/ TargetClose

SpecRoute == InitEnsure /\ [][NextRoute]_vars

\* Regular accesses, exam accesses before the exam opens, and the deletion
\* of enrollments, requested while no other request is in flight.
NextDelete ==
    \/ \E r \in Slots : \E token \in Tokens : AccessBegin(r, token)
    \/ \E r \in Slots : AccessCont(r)
    \/ \E r \in Slots : \E a \in AssignmentIds : \E token \in Tokens : ExamBegin(r, a, token)
    \/ \E r \in Slots : \E id \in {1, 2} : Quiet /\ DeleteBegin(r, id)
    \/ \E r \in Slots : DeleteCont(r)
    \/ \E r \in Slots : DockerCall(r)

SpecDelete == InitGateway /\ [][NextDelete]_vars

\* A catalogue with exam 9 of the student's course 3, homework 8 of the same
\* course (not an exam) and exam 7 of another course 5; the exams are open.
CatalogIds == {7, 8, 9}

InitCatalog ==
    /\ InitRelay
    /\ now = 1
    /\ assignments =
          (9 :> [course_id |-> 3, is_exam |-> TRUE, start_time |-> 1, end_time |-> 2])
          @@ (8 :> [course_id |-> 3, is_exam |-> FALSE, start_time |-> NoTime, end_time |-> NoTime])
          @@ (7 :> [course_id |-> 5, is_exam |-> TRUE, start_time |-> 1, end_time |-> 2])
    /\ enrollments =
          (1 :> [student_id |-> 4, course_id |-> 3, access_token |-> "tok-A",
                 container_id |-> NoRef, container_status |-> "stopped"])
    /\ examSessions = <<>>
    /\ containers = {}
    /\ ncreated = 0
    /\ sessions = <<>>
    /\ req = [r \in Slots |-> IdleReq]

NextCatalog ==
    \/ \E r \in Slots : \E a \in CatalogIds : \E token \in Tokens : ExamBegin(r, a, token)
    \/ \E r \in Slots : ExamCont(r)
    \/ \E r \in Slots : DockerCall(r)

SpecCatalog == InitCatalog /\ [][NextCatalog]_vars

\* Exam accesses and the professor ending sessions while the exam is open.
NextForceEnd ==
    \/ \E r \in Slots : \E a \in AssignmentIds : \E token \in Tokens : ExamBegin(r, a, token)
    \/ \E r \in Slots : ExamCont(r)
    \/ \E r \in Slots : \E id \in {1, 2} : ForceEndBegin(r, id)
    \/ \E r \in Slots : ForceEndCont(r)
    \/ \E r \in Slots : DockerCall(r)

SpecForceEnd == InitEnsure /\ [][NextForceEnd]_vars

\* The keys a DELETE /api/sessions/:id may name.
SessionKeys == {<<"lms", 3, 4>>, <<"exam", 9, 4>>}

\* The four cleanup paths (DELETE /api/sessions/:id, the professor's end, the
\* deletion of an enrollment, the sweep) after accesses that made containers,
\* some of which have exited since; a call begins only when the one before it
\* has been answered.
NextCleanup ==
    \/ \E r \in Slots : \E token \in Tokens : Quiet /\ AccessBegin(r, token)
    \/ \E r \in Slots : AccessCont(r)
    \/ \E r \in Slots : \E a \in AssignmentIds : \E token \in Tokens :
          Quiet /\ ExamBegin(r, a, token)
    \/ \E r \in Slots : ExamCont(r)
    \/ \E r \in Slots : \E id \in SessionKeys : Quiet /\ EndSessionBegin(r, id)
    \/ \E r \in Slots : EndSessionCont(r)
    \/ \E r \in Slots : \E id \in {1, 2} : Quiet /\ ForceEndBegin(r, id)
    \/ \E r \in Slots : ForceEndCont(r)
    \/ \E r \in Slots : \E id \in {1, 2} : Quiet /\ DeleteBegin(r, id)
    \/ \E r \in Slots : DeleteCont(r)
    \/ \E r \in Slots : Quiet /\ TimerTick(r)
    \/ \E r \in Slots : SweepCont(r)
    \/ \E r \in Slots : DockerCall(r)
    \/ \E c \in containers : Quiet /\ ContainerExits(c)
    \/ Tick

SpecCleanup == InitGateway /\ [][NextCleanup]_vars

\* Listings of the registry between accesses, while containers exit or
\* disappear on their own; a call begins, and the runtime changes, only when
\* no call is in flight.
NextList ==
    \/ \E r \in Slots : \E token \in Tokens : Quiet /\ AccessBegin(r, token)
    \/ \E r \in Slots : AccessCont(r)
    \/ \E r \in Slots : \E a \in AssignmentIds : \E token \in Tokens :
          Quiet /\ ExamBegin(r, a, token)
    \/ \E r \in Slots : ExamCont(r)
    \/ \E r \in Slots : Quiet /\ ListBegin(r)
    \/ \E r \in Slots : ListCont(r)
    \/ \E r \in Slots : DockerCall(r)
    \/ \E c \in containers : Quiet /\ ContainerExits(c)
    \/ \E c \in containers : Quiet /\ ContainerVanishes(c)

SpecList == InitEnsure /\ [][NextList]_vars

\* Readiness probes while accesses create and start the containers.
NextProbe ==
    \/ \E r \in Slots : \E token \in Tokens : Quiet /\ AccessBegin(r, token)
    \/ \E r \in Slots : AccessCont(r)
    \/ \E r \in Slots : \E a \in AssignmentIds : \E token \in Tokens :
          Quiet /\ ExamBegin(r, a, token)
    \/ \E r \in Slots : ExamCont(r)
    \/ \E r \in Slots : DockerCall(r)
    \/ \E r \in Slots : \E id \in SessionKeys : StatusBegin(r, id)
    \/ \E r \in Slots : \E id \in {1, 2} : ReadyBegin(r, id)
    \/ \E r \in Slots : \E event \in SocketEvents : SocketEvent(r, event)

SpecProbe == InitEnsure /\ [][NextProbe]_vars

\* Two students of course 3 while exam 9 is open.
TwoTokens == {"tok-A", "tok-B"}

InitTwoStudents ==
    /\ InitRelay
    /\ now = 1
    /\ assignments = (9 :> [course_id |-> 3, is_exam |-> TRUE,
                            start_time |-> 1, end_time |-> 2])
    /\ enrollments =
          (1 :> [student_id |-> 4, course_id |-> 3, access_token |-> "tok-A",
                 container_id |-> NoRef, container_status |-> "stopped"])
          @@ (2 :> [student_id |-> 5, course_id |-> 3, access_token |-> "tok-B",
                    container_id |-> NoRef, container_status |-> "stopped"])
    /\ examSessions = <<>>
    /\ containers = {}
    /\ ncreated = 0
    /\ sessions = <<>>
    /\ req = [r \in Slots |-> IdleReq]

\* The exam accesses of the two students one after the other, the clock, and
\* sweeps during which the durable store may fail.
NextSweepTwo ==
    \/ \E r \in Slots : \E a \in AssignmentIds : \E token \in TwoTokens :
          Quiet /\ ExamBegin(r, a, token)
    \/ \E r \in Slots : ExamCont(r)
    \/ \E r \in Slots : \E throws \in SUBSET (DOMAIN examSessions) :
          Quiet /\ SweepStart(r, throws)
    \/ \E r \in Slots : SweepCont(r)
    \/ \E r \in Slots : DockerCall(r)
    \/ Tick

SpecSweepTwo == InitTwoStudents /\ [][NextSweepTwo]_vars

\* The exam access path, the sweep and the clock, with containers that exit
\* on their own. The interval timer keeps firing (in the model whenever a slot
\* is free again), the runtime answers every call, and a handler goes on when
\* its call is answered.
NextExpiry ==
    \/ NextExam
    \/ \E c \in containers : ContainerExits(c)

SpecExpiryFair ==
    /\ InitGateway
    /\ [][NextExpiry]_vars
    /\ SF_vars(\E r \in Slots : TimerTick(r))
    /\ \A r \in Slots : WF_vars(DockerCall(r))
    /\ \A r \in Slots : WF_vars(SweepCont(r))
    /\ \A r \in Slots : WF_vars(ExamCont(r))

\* The operator's start and stop buttons and the student's link, one call
\* after the other, with containers that exit or are removed on their own.
NextOperator ==
    \/ \E r \in Slots : \E token \in Tokens : Quiet /\ AccessBegin(r, token)
    \/ \E r \in Slots : AccessCont(r)
    \/ \E r \in Slots : \E id \in {1, 2} : Quiet /\ StartBegin(r, id)
    \/ \E r \in Slots : StartCont(r)
    \/ \E r \in Slots : \E id \in {1, 2} : Quiet /\ StopBegin(r, id)
    \/ \E r \in Slots : StopCont(r)
    \/ \E r \in Slots : DockerCall(r)
    \/ \E c \in containers : Quiet /\ ContainerExits(c)
    \/ \E c \in containers : Quiet /\ ContainerVanishes(c)

SpecOperator == InitGateway /\ [][NextOperator]_vars

\* The paths an upgrade request may carry once student 4 has sessions.
AdmissionUrls == {<<"vnc", k, "websockify">> : k \in SessionKeys} \cup {<<"other">>}

\* A browser's upgrade request arriving at any moment between the calls that
\* register a key (the two access paths) and those that forget it (the stop
\* button, DELETE /api/sessions/:id, the professor's end, the sweep).
NextAdmission ==
    \/ \E r \in Slots : \E token \in Tokens : Quiet /\ AccessBegin(r, token)
    \/ \E r \in Slots : AccessCont(r)
    \/ \E r \in Slots : \E a \in AssignmentIds : \E token \in Tokens :
          Quiet /\ ExamBegin(r, a, token)
    \/ \E r \in Slots : ExamCont(r)
    \/ \E r \in Slots : \E id \in {1, 2} : Quiet /\ StopBegin(r, id)
    \/ \E r \in Slots : StopCont(r)
    \/ \E r \in Slots : \E id \in SessionKeys : Quiet /\ EndSessionBegin(r, id)
    \/ \E r \in Slots : EndSessionCont(r)
    \/ \E r \in Slots : \E id \in {1, 2} : Quiet /\ ForceEndBegin(r, id)
    \/ \E r \in Slots : ForceEndCont(r)
    \/ \E r \in Slots : Quiet /\ TimerTick(r)
    \/ \E r \in Slots : SweepCont(r)
    \/ \E r \in Slots : DockerCall(r)
    \/ \E url \in AdmissionUrls : Upgrade(url)
    \/ Tick

SpecAdmission == InitGateway /\ [][NextAdmission]_vars

\* Listings of the registry overlapping with regular accesses, after
\* containers were removed by someone other than the gateway.
NextListRace ==
    \/ \E r \in Slots : \E token \in Tokens : AccessBegin(r, token)
    \/ \E r \in Slots : AccessCont(r)
    \/ \E r \in Slots : ListBegin(r)
    \/ \E r \in Slots : ListCont(r)
    \/ \E r \in Slots : DockerCall(r)
    \/ \E c \in containers : Quiet /\ ContainerVanishes(c)

SpecListRace == InitEnsure /\ [][NextListRace]_vars

\* The windows the professor may save: the regular one, one without an end,
\* and one entered in the wrong order.
SavedWindows == {<<1, 2>>, <<1, NoTime>>, <<3, 1>>}

\* Exam accesses and sweeps, one call after the other, while the clock runs
\* and the professor edits the exam's window.
NextWindow ==
    \/ \E r \in Slots : \E a \in AssignmentIds : \E token \in Tokens :
          Quiet /\ ExamBegin(r, a, token)
    \/ \E r \in Slots : ExamCont(r)
    \/ \E r \in Slots : Quiet /\ TimerTick(r)
    \/ \E r \in Slots : SweepCont(r)
    \/ \E r \in Slots : DockerCall(r)
    \/ \E a \in AssignmentIds : \E w \in SavedWindows : UpdateAssignment(a, w)
    \/ Tick

SpecWindow == InitGateway /\ [][NextWindow]_vars

\* Two students in two courses, each course with an open exam.
IsolationExams == {8, 9}

InitIsolation ==
    /\ InitRelay
    /\ now = 1
    /\ assignments =
          (9 :> [course_id |-> 3, is_exam |-> TRUE, start_time |-> 1, end_time |-> 2])
          @@ (8 :> [course_id |-> 6, is_exam |-> TRUE, start_time |-> 1, end_time |-> 2])
    /\ enrollments =
          (1 :> [student_id |-> 4, course_id |-> 3, access_token |-> "tok-A",
                 container_id |-> NoRef, container_status |-> "stopped"])
          @@ (2 :> [student_id |-> 5, course_id |-> 6, access_token |-> "tok-B",
                    container_id |-> NoRef, container_status |-> "stopped"])
    /\ examSessions = <<>>
    /\ containers = {}
    /\ ncreated = 0
    /\ sessions = <<>>
    /\ req = [r \in Slots |-> IdleReq]

\* The two students' accesses, to either exam, in any interleaving.
NextIsolation ==
    \/ \E r \in Slots : \E token \in TwoTokens : AccessBegin(r, token)
    \/ \E r \in Slots : AccessCont(r)
    \/ \E r \in Slots : \E a \in IsolationExams : \E token \in TwoTokens :
          ExamBegin(r, a, token)
    \/ \E r \in Slots : ExamCont(r)
    \/ \E r \in Slots : DockerCall(r)

SpecIsolation == InitIsolation /\ [][NextIsolation]_vars

\* The whole gateway.
Next ==
    \/ NextRelay \/ NextAccess \/ NextExam \/ NextDelete \/ NextForceEnd
    \/ NextCleanup \/ NextList \/ NextProbe \/ NextSweepTwo \/ NextExpiry
    \/ NextOperator \/ NextAdmission \/ NextListRace \/ NextWindow
    \/ NextIsolation
Spec == InitGateway /\ [][Next]_vars

\* ------------------------------------------------------------------ access claims
\* C4: under any interleaving of resolveAccess calls for a token, the runtime
\* never holds two containers for the session, and at most one container is
\* ever created for it.
C4_AtMostOneContainer ==
    \A e \in DOMAIN enrollments :
        /\ Cardinality({c \in containers : c.key = getContainerName(enrollments[e])}) <= 1
        /\ ncreated <= Cardinality(DOMAIN enrollments)

\* Two calls that both found no container have ended, and one container exists.
C4_Witness ==
    \E r1, r2 \in Slots :
        /\ r1 # r2
        /\ req[r1].kind = "access" /\ req[r1].saw = "missing" /\ req[r1].pc = "done"
        /\ req[r2].kind = "access" /\ req[r2].saw = "missing" /\ req[r2].pc = "done"
        /\ Cardinality(containers) = 1

\* C5: every resolveAccess call with a valid token ends with a redirect that
\* carries the session key, also when it ran concurrently with another call
\* for the same token and lost the race to create or start the container.
C5_BothCallersSucceed ==
    \A r \in Slots :
        (req[r].kind = "access" /\ req[r].pc = "done" /\ req[r].result # "invalid-token")
            => /\ req[r].result = "redirect"
               /\ \E e \in DOMAIN enrollments : req[r].key = getContainerName(enrollments[e])

\* ------------------------------------------------------------------ exam claims
ValidFor(token, assignmentId) ==
    /\ getEnrollmentByToken(token) # 0
    /\ getExamAssignment(assignmentId) # 0
    /\ assignments[assignmentId].course_id
          = enrollments[getEnrollmentByToken(token)].course_id

WellFormedWindow(assignmentId) ==
    \/ assignments[assignmentId].start_time = NoTime
    \/ assignments[assignmentId].end_time = NoTime
    \/ assignments[assignmentId].start_time <= assignments[assignmentId].end_time

Refused(r, result) ==
    /\ req'[r].pc = "done"
    /\ req'[r].result = result
    /\ req'[r].creates = 0 /\ req'[r].starts = 0
    /\ UNCHANGED <<examSessions, enrollments, containers, ncreated, sessions>>

\* C6: an exam access with a valid token of an enrolled student at a time
\* before the exam's start_time is answered not-started in the same step, and
\* that step creates no ExamSession, issues no runtime call and leaves the
\* runtime and the registry as they were.
C6_BeforeWindow ==
    [][ \A r \in Slots, a \in AssignmentIds, token \in Tokens :
          (/\ ExamBegin(r, a, token)
           /\ ValidFor(token, a)
           /\ assignments[a].start_time # NoTime
           /\ now < assignments[a].start_time)
          => Refused(r, "not-started") ]_vars

\* An access was answered not-started before the start time; nothing exists.
C6_Witness ==
    \E r \in Slots :
        /\ req[r].kind = "exam" /\ req[r].result = "not-started"
        /\ now < assignments[9].start_time
        /\ examSessions = <<>> /\ containers = {} /\ DOMAIN sessions = {}

C8_OneExamSession ==
    \A i, j \in DOMAIN examSessions :
        (/\ examSessions[i].assignment_id = examSessions[j].assignment_id
         /\ examSessions[i].student_id = examSessions[j].student_id)
        => i = j

\* Two concurrent accesses of the same student were both let in, and one
\* active record exists.
C8_Witness ==
    \E r1, r2 \in Slots :
        /\ r1 # r2
        /\ req[r1].kind = "exam" /\ req[r1].result = "redirect"
        /\ req[r2].kind = "exam" /\ req[r2].pc \in {"call", "reply"}
        /\ Len(examSessions) = 1
        /\ examSessions[1].status = "active"

\* C9: a resolveAccess or resolveExamAccess call that finds its container
\* running issues no create and no start call, writes no container field of
\* the Enrollment or ExamSession, leaves the runtime as it was and answers
\* with a redirect carrying the deterministic session key.
C9_RunningIsIdempotent ==
    /\ [](\A r \in Slots :
            (req[r].kind \in {"access", "exam"} /\ req[r].saw = "running")
            => /\ req[r].creates = 0 /\ req[r].starts = 0 /\ ~req[r].wrote
               /\ req[r].pc = "done" /\ req[r].result = "redirect"
               /\ req[r].key = IF req[r].kind = "access"
                               THEN getContainerName(enrollments[1])
                               ELSE examContainerName(9, enrollments[1].student_id))
    /\ [][ \A r \in Slots :
            (req'[r].saw = "running" /\ req[r].pc = "reply")
            => /\ enrollments' = enrollments
               /\ examSessions' = examSessions
               /\ containers' = containers
               /\ req[r].key \in DOMAIN sessions' ]_vars

\* A regular access and an exam access both found their container running.
C9_Witness ==
    \E r1, r2 \in Slots :
        /\ req[r1].kind = "access" /\ req[r1].saw = "running" /\ req[r1].result = "redirect"
        /\ req[r2].kind = "exam" /\ req[r2].saw = "running" /\ req[r2].result = "redirect"

\* C10: a sweep that starts when an ExamSession is already completed does not
\* select it, issues no stop or remove for it, does not write its record and
\* does not count it; a sweep counts exactly the sessions it marked completed.
C10_SecondSweepIsNoOp ==
    /\ [](\A r \in Slots :
            req[r].kind = "sweep"
            => /\ req[r].doneAtStart \cap req[r].selected = {}
               /\ req[r].doneAtStart \cap req[r].ended = {}
               /\ req[r].ended \subseteq req[r].selected
               /\ req[r].terminated = Cardinality(req[r].ended)
               /\ \A x \in req[r].doneAtStart :
                     examSessions[x].container_id = NoRef
                     \/ examSessions[x].container_id \notin req[r].stopped)
    /\ [][ \A r \in Slots :
            (req'[r].kind = "sweep" /\ req'[r] # req[r])
            => \A x \in req'[r].doneAtStart : examSessions'[x] = examSessions[x] ]_vars

\* A sweep terminated the expired session and removed its container; a second
\* sweep, begun after it at the same clock value, ended with nothing done.
C10_Witness ==
    \E r \in Slots :
        /\ req[r].kind = "sweep" /\ req[r].pc = "done"
        /\ req[r].doneAtStart = {1} /\ req[r].terminated = 0
        /\ examSessions[1].ends = 1
        /\ examSessions[1].ended_at = now
        /\ examSessions[1].container_id # NoRef
        /\ containers = {}

\* ------------------------------------------------------------------ sweep claims
\* The sessions a sweep finds active with their assignment's end_time in the
\* past: those of its snapshot once it has begun, those of the table before.
ExpiredFor(r) ==
    IF req[r].kind = "sweep" /\ req[r].pc = "reply"
    THEN {req[r].snap[k].id : k \in {j \in DOMAIN req[r].snap :
              /\ req[r].snap[j].end_time # NoTime
              /\ req[r].snap[j].end_time < req[r].nowAt}}
    ELSE {i \in DOMAIN examSessions :
              /\ examSessions[i].status = "active"
              /\ assignments[examSessions[i].assignment_id].end_time # NoTime
              /\ assignments[examSessions[i].assignment_id].end_time < now}

\* C11: when a sweep ends, every ExamSession it found active and expired is
\* completed with an end timestamp, its container exam-{assignment}-{student}
\* is not in the runtime, and the registry has no entry for that key.
C11_SweepPostcondition ==
    [][ \A r \in Slots :
          (req'[r].kind = "sweep" /\ req'[r].pc = "done" /\ req'[r] # req[r])
          => \A x \in ExpiredFor(r) :
               LET key == examContainerName(examSessions'[x].assignment_id,
                                            examSessions'[x].student_id)
               IN  /\ examSessions'[x].status = "completed"
                   /\ examSessions'[x].ended_at # NoTime
                   /\ key \notin DOMAIN sessions'
                   /\ \A c \in containers' : c.name # key ]_vars

\* The student's ExamSession for the assignment is completed and the
\* assignment's end_time is in the past.
SweptFor(token, assignmentId) ==
    LET es == getExamSessionByStudentAndAssignment(examSessions,
                  enrollments[getEnrollmentByToken(token)].student_id, assignmentId)
    IN  /\ es # 0
        /\ examSessions[es].status = "completed"
        /\ assignments[assignmentId].end_time # NoTime
        /\ assignments[assignmentId].end_time < now

C13_SequentialAccess ==
    /\ [](\A r \in Slots :
            (req[r].kind = "access" /\ req[r].pc = "done"
                 /\ req[r].result # "invalid-token")
            => /\ req[r].result = "redirect"
               /\ req[r].key = getContainerName(enrollments[1])
               /\ req[r].saw = "missing" => req[r].creates = 1 /\ req[r].starts = 1
               /\ req[r].saw = "stopped" => req[r].creates = 0 /\ req[r].starts = 1
               /\ req[r].saw = "running" => req[r].creates = 0 /\ req[r].starts = 0)
    /\ [](ncreated <= 1 /\ Cardinality(containers) <= 1)
    /\ [][ \A r \in Slots :
            /\ (req'[r].creates > req[r].creates /\ req'[r].kind = "access")
                 => Resolve(getContainerName(enrollments[1])) = {}
            /\ (req'[r].kind = "access" /\ req'[r].result = "redirect"
                    /\ req[r].pc = "reply")
                 => /\ containers' # {}
                    /\ \A c \in containers' :
                          c.name = getContainerName(enrollments[1]) /\ c.running
                    /\ getContainerName(enrollments[1]) \in DOMAIN sessions' ]_vars

\* The container was created, stopped, and an access then started it again.
C13_Witness ==
    \E r \in Slots :
        /\ req[r].kind = "access" /\ req[r].pc = "done" /\ req[r].result = "redirect"
        /\ req[r].saw = "stopped" /\ req[r].starts = 1
        /\ enrollments[1].container_status = "running"
        /\ ncreated = 1
        /\ \E c \in containers : c.name = <<"lms", 3, 4>> /\ c.running

\* ------------------------------------------------------------------ relay lifecycle
\* C14: a connection enters Relaying only in the step in which the outbound
\* connection reports open, and the browser handshake is never completed
\* before that; when the outbound connection fails before opening, the
\* browser socket is destroyed and nothing has been forwarded; a closed
\* connection forwards nothing more and never opens another outbound
\* connection, and an outbound connection is only ever opened by the upgrade
\* itself.
C14_RelayStateMachine ==
    /\ []((relayPc = "relaying" \/ clientState \in {"OPEN", "CLOSING"})
              => targetState \notin {"none", "CONNECTING"})
    /\ [][ /\ (relayPc' = "relaying" /\ relayPc # "relaying")
                => (targetState = "CONNECTING" /\ targetState' = "OPEN")
           /\ (targetState = "CONNECTING" /\ targetState' = "CLOSED")
                => /\ clientState' = "destroyed"
                   /\ relayPc' = "closed"
                   /\ toTarget' = <<>> /\ toClient' = <<>> /\ nmsgs' = 0
           /\ relayPc = "closed"
                => /\ relayPc' = "closed"
                   /\ toTarget' = toTarget /\ toClient' = toClient
                   /\ relayHost' = relayHost
                   /\ targetState' # "CONNECTING"
           /\ (targetState' = "CONNECTING" /\ targetState # "CONNECTING")
                => relayPc = "idle" ]_vars

\* The outbound connection was attempted and is closed, the browser socket is
\* destroyed, and no message was received or forwarded.
C14_Witness ==
    /\ relayPc = "closed"
    /\ relayHost # <<>>
    /\ targetState = "CLOSED"
    /\ clientState = "destroyed"
    /\ nmsgs = 0 /\ toTarget = <<>> /\ toClient = <<>>

\* C15: once the browser side of a relay connection is closed or destroyed,
\* the container side is eventually closed (or was never opened), and once
\* the container side is closed the browser side is eventually closed.
C15_ClosedTogether ==
    /\ (clientState \in {"CLOSED", "destroyed"}) ~> (targetState \in {"none", "CLOSED"})
    /\ (targetState = "CLOSED") ~> (clientState \in {"CLOSED", "destroyed"})

\* ------------------------------------------------------------------ routing
\* C16: the host the gateway derives from a registered session key (in the
\* WebSocket relay, the HTTP pass-through and the readiness probe alike) is
\* the key itself, which is the name of the session's container; the host an
\* upgrade connects to is the name of a container that /access or /exam
\* creates.
C16_KeyRoutesToContainer ==
    /\ \A k \in DOMAIN sessions : ContainerHost(k) = k
    /\ relayHost # <<>>
          => relayHost \in {getContainerName(enrollments[e]) : e \in DOMAIN enrollments}
                 \cup {examContainerName(a, enrollments[e].student_id) :
                          a \in DOMAIN assignments, e \in DOMAIN enrollments}

\* ------------------------------------------------------------------ refusals
NoEnrollmentHas(token) ==
    \A e \in DOMAIN enrollments : enrollments[e].access_token # token

\* C17: a /access or /exam call with a token that no Enrollment carries is
\* answered invalid-token in the same step, issues no runtime call and leaves
\* the tables, the runtime and the registry as they were; a token that no
\* Enrollment carries (never issued, or its Enrollment deleted) is carried by
\* none afterwards.
C17_InvalidToken ==
    [][ /\ \A r \in Slots, token \in Tokens :
              (/\ NoEnrollmentHas(token)
               /\ \/ AccessBegin(r, token)
                  \/ \E a \in AssignmentIds : ExamBegin(r, a, token))
              => /\ Refused(r, "invalid-token")
                 /\ req'[r].call = NoCall
        /\ \A token \in Tokens :
              NoEnrollmentHas(token)
              => \A e \in DOMAIN enrollments' : enrollments'[e].access_token # token ]_vars

\* The enrollment was deleted after its container had been created, and an
\* access with its token was then answered invalid-token.
C17_Witness ==
    \E r \in Slots :
        /\ DOMAIN enrollments = {}
        /\ ncreated > 0
        /\ req[r].kind \in {"access", "exam"} /\ req[r].token = "tok-A"
        /\ req[r].pc = "done" /\ req[r].result = "invalid-token"

\* The assignment is not an exam, or is not of the course of the token's
\* Enrollment.
NotAnExamOfTheCourse(token, assignmentId) ==
    /\ ~NoEnrollmentHas(token)
    /\ assignmentId \in DOMAIN assignments
    /\ \/ ~assignments[assignmentId].is_exam
       \/ \E e \in DOMAIN enrollments :
             /\ enrollments[e].access_token = token
             /\ enrollments[e].course_id # assignments[assignmentId].course_id

\* C18 as stated: an exam access with a valid token to an assignment that is
\* not an exam, or is of another course, is answered forbidden and changes
\* nothing.
C18_ForbiddenAsStated ==
    [][ \A r \in Slots, a \in CatalogIds, token \in Tokens :
          (ExamBegin(r, a, token) /\ NotAnExamOfTheCourse(token, a))
          => Refused(r, "forbidden") ]_vars

\* C18 amended: an exam access with a valid token to an assignment that is
\* not flagged as an exam is answered not-found (404), and to an exam of
\* another course forbidden (403); in both cases the answer comes in the same
\* step, which creates no ExamSession, issues no runtime call and leaves the
\* runtime and the registry as they were.
C18_RefusedOutsideCourse ==
    [][ \A r \in Slots, a \in CatalogIds, token \in Tokens :
          (ExamBegin(r, a, token) /\ NotAnExamOfTheCourse(token, a))
          => /\ req'[r].call = NoCall
             /\ IF assignments[a].is_exam
                THEN Refused(r, "forbidden")
                ELSE Refused(r, "not-found") ]_vars

\* While an exam access of the student is in flight, another with the same
\* token to an assignment that is not an exam was answered not-found.
C18_Witness ==
    \E r1, r2 \in Slots :
        /\ req[r1].kind = "exam" /\ req[r1].pc \in {"call", "reply"}
        /\ req[r2].kind = "exam" /\ req[r2].token = "tok-A"
        /\ req[r2].pc = "done" /\ req[r2].result = "not-found"
        /\ Len(examSessions) = 1

\* The ExamSession of the token's student for the assignment is completed and
\* the clock is inside the assignment's window.
CompletedInWindow(token, assignmentId) ==
    /\ \E i \in DOMAIN examSessions : \E e \in DOMAIN enrollments :
          /\ enrollments[e].access_token = token
          /\ examSessions[i].student_id = enrollments[e].student_id
          /\ examSessions[i].assignment_id = assignmentId
          /\ examSessions[i].status = "completed"
    /\ ~(assignments[assignmentId].start_time # NoTime
            /\ now < assignments[assignmentId].start_time)
    /\ ~(assignments[assignmentId].end_time # NoTime
            /\ now > assignments[assignmentId].end_time)

\* C19: while the ExamSession for (assignment, student) is completed, an exam
\* access by that student inside the window is answered already-submitted in
\* the same step, which creates no ExamSession, issues no runtime call and
\* leaves the runtime and the registry as they were.
C19_NoReentry ==
    [][ \A r \in Slots, a \in AssignmentIds, token \in Tokens :
          (ExamBegin(r, a, token) /\ ValidFor(token, a) /\ CompletedInWindow(token, a))
          => /\ Refused(r, "already-submitted")
             /\ req'[r].call = NoCall ]_vars

\* The session was ended inside the window, its container removed, and a
\* later access was answered already-submitted.
C19_Witness ==
    \E r \in Slots :
        /\ req[r].kind = "exam" /\ req[r].pc = "done"
        /\ req[r].result = "already-submitted"
        /\ Len(examSessions) = 1 /\ examSessions[1].status = "completed"
        /\ examSessions[1].container_id # NoRef
        /\ containers = {}
        /\ now <= assignments[9].end_time

\* ------------------------------------------------------------------ failures
\* C20: when the create or the start call of a /access or /exam request is
\* rejected, the request is answered with the generic failure (500) in its
\* next step, and no step of a request that does not end in a redirect
\* writes the registry: only the final step of a successful access registers
\* the session.
C20_FailureAbortsAccess ==
    [][ \A r \in Slots :
          /\ (/\ req[r].kind \in {"access", "exam"}
              /\ req[r].pc = "reply"
              /\ req[r].call.op \in {"create", "start"}
              /\ req[r].reply.status = "error"
              /\ req'[r] # req[r])
             => /\ req'[r].pc = "done"
                /\ req'[r].result = "error"
                /\ UNCHANGED <<sessions, enrollments, examSessions, containers>>
          /\ (/\ req'[r].kind \in {"access", "exam"}
              /\ req'[r] # req[r]
              /\ req'[r].result # "redirect")
             => sessions' = sessions ]_vars

\* An exam access whose start call was rejected was answered with the
\* failure, and the registry has no entry for its key.
C20_Witness ==
    \E r \in Slots :
        /\ req[r].kind = "exam" /\ req[r].pc = "done" /\ req[r].result = "error"
        /\ req[r].starts = 1
        /\ req[r].key \notin DOMAIN sessions

\* ------------------------------------------------------------------ cleanup
CleanupKinds == {"endSession", "end", "delete", "sweep"}

\* C21: in DELETE /api/sessions/:id, the professor's end of an exam session,
\* the deletion of an enrollment and the sweep, a rejected stop or remove call
\* is never propagated: none of them ever answers with an error, and the step
\* that receives the rejection goes on to the primary action (the registry
\* entry is forgotten, the ExamSession is completed, the Enrollment is
\* deleted) and answers success.
C21_CleanupIsBestEffort ==
    /\ [](\A r \in Slots : req[r].kind \in CleanupKinds => req[r].result # "error")
    /\ [][ \A r \in Slots :
            (/\ req[r].kind \in CleanupKinds
             /\ req[r].pc = "reply"
             /\ req[r].reply.status = "error"
             /\ req'[r] # req[r])
            => CASE req[r].kind = "endSession" ->
                      IF req[r].call.op = "stop"
                      THEN req'[r].call.op = "remove"
                      ELSE /\ req[r].key \notin DOMAIN sessions'
                           /\ req'[r].pc = "done" /\ req'[r].result = "success"
                 [] req[r].kind = "end" ->
                      /\ examSessions'[req[r].esid].status = "completed"
                      /\ examContainerName(examSessions[req[r].esid].assignment_id,
                                           examSessions[req[r].esid].student_id)
                            \notin DOMAIN sessions'
                      /\ req'[r].pc = "done" /\ req'[r].result = "ended"
                 [] req[r].kind = "delete" ->
                      /\ req[r].eid \notin DOMAIN enrollments'
                      /\ req'[r].pc = "done" /\ req'[r].result = "deleted"
                 [] req[r].kind = "sweep" ->
                      LET sess == req[r].snap[req[r].idx]
                      IN  /\ examSessions'[sess.id].status = "completed"
                          /\ examContainerName(sess.assignment_id, sess.student_id)
                                \notin DOMAIN sessions'
                          /\ sess.id \in req'[r].ended ]_vars

\* The enrollment's container was already gone when the enrollment was
\* deleted: the stop call was rejected, and the deletion was answered success.
C21_Witness ==
    \E r \in Slots :
        /\ req[r].kind = "delete" /\ req[r].pc = "done"
        /\ req[r].saw = "failed" /\ req[r].result = "deleted"
        /\ DOMAIN enrollments = {}
        /\ ncreated = 1 /\ containers = {}

\* ------------------------------------------------------------------ listing
\* C22: GET /api/sessions never answers with an error; when a listing (run
\* with no other call in flight) completes, every entry left in the registry
\* has its container in the runtime, every entry whose container was not
\* found is forgotten, and the list holds each remaining key once, with the
\* status running or stopped that the runtime shows for its container.
C22_ListingSelfHeals ==
    /\ [](\A r \in Slots : req[r].kind = "list" => req[r].result \in {"none", "listed"})
    /\ [][ \A r \in Slots :
            (req'[r].kind = "list" /\ req'[r].pc = "done" /\ req'[r] # req[r])
            => LET body == req'[r].list
               IN  /\ \A k \in DOMAIN sessions' :
                        \E c \in containers' : sessions'[k].containerId \in {c.id, c.name}
                   /\ \A k \in req'[r].visited :
                        k \in DOMAIN sessions' <=> \E c \in containers' : c.name = k
                   /\ {body[i].id : i \in DOMAIN body} = DOMAIN sessions'
                   /\ Len(body) = Cardinality(DOMAIN sessions')
                   /\ \A i \in DOMAIN body :
                        \E c \in containers' :
                           /\ sessions'[body[i].id].containerId \in {c.id, c.name}
                           /\ body[i].status = IF c.running THEN "running" ELSE "stopped" ]_vars

\* A listing passed two entries: the one whose container had disappeared is
\* forgotten, the other is listed as stopped.
C22_Witness ==
    \E r \in Slots :
        /\ req[r].kind = "list" /\ req[r].pc = "done" /\ req[r].result = "listed"
        /\ Cardinality(req[r].visited) = 2
        /\ Len(req[r].list) = 1 /\ req[r].list[1].status = "stopped"
        /\ DOMAIN sessions = {req[r].list[1].id}
        /\ Cardinality(containers) = 1

\* ------------------------------------------------------------------ readiness
\* C23: a readiness probe is answered once, with ready exactly when its
\* connection to port 6080 was established and with not-ready when the
\* connection was refused, failed otherwise or timed out; no outcome of the
\* connection is answered as an error.
C23_ProbeFoldsToBoolean ==
    /\ [](\A r \in Slots :
            (req[r].kind \in {"status", "ready"} /\ req[r].pc = "done"
                 /\ req[r].result # "not-found")
            => /\ req[r].saw \in SocketEvents
               /\ req[r].result \in {"ready", "starting"}
               /\ req[r].result = "ready" <=> req[r].saw = "connect")
    /\ [][ \A r \in Slots :
            (req[r].pc = "probe" /\ req'[r] # req[r])
            => /\ req'[r].pc = "done"
               /\ req'[r].result \in {"ready", "starting"} ]_vars

\* While a probe of the enrollment's running container was answered ready,
\* another was answered not-ready after its connection timed out.
C23_Witness ==
    \E r1, r2 \in Slots :
        /\ req[r1].kind = "ready" /\ req[r1].pc = "done"
        /\ req[r1].saw = "connect" /\ req[r1].result = "ready"
        /\ req[r2].kind \in {"status", "ready"} /\ req[r2].pc = "done"
        /\ req[r2].saw = "timeout" /\ req[r2].result = "starting"

\* ------------------------------------------------------------------ sweep isolation
\* C24: when a sweep ends, every session it enumerated as active and expired
\* is completed, except one whose own processing raised an exception: an
\* exception for one session (from stop or remove, or from marking the record
\* completed) does not keep the others of the same tick from being
\* terminated.
C24_SweepIsolatesErrors ==
    [][ \A r \in Slots :
          (req'[r].kind = "sweep" /\ req'[r].pc = "done" /\ req'[r] # req[r])
          => \A x \in ExpiredFor(r) \ req'[r].throws :
                examSessions'[x].status = "completed" ]_vars

\* ------------------------------------------------------------------ termination order
\* The ExamSessions a step marks completed.
MarkedNow == {x \in DOMAIN examSessions : examSessions'[x].ends > examSessions[x].ends}

\* C25: in the sweep and in the professor's end, a session that has a
\* container id is marked completed only by the step that receives the answer
\* to the remove call on that container, so after stop and remove have both
\* been issued and have returned or failed; a step that marks a session
\* without having awaited a call does so only for a session without
\* container id; and the registry entry is forgotten only in a step after
\* which the record is completed.
C25_StopAndRemoveBeforeCompleted ==
    [][ \A r \in Slots :
          (req'[r].kind \in {"sweep", "end"} /\ req'[r] # req[r])
          => /\ \A x \in MarkedNow :
                   IF req[r].pc = "reply"
                         /\ x = (IF req[r].kind = "sweep"
                                 THEN req[r].snap[req[r].idx].id ELSE req[r].esid)
                   THEN /\ req[r].call.op = "remove"
                        /\ req[r].call.ref = examSessions[x].container_id
                   ELSE examSessions[x].container_id = NoRef
             /\ \A x \in DOMAIN examSessions :
                   LET key == examContainerName(examSessions[x].assignment_id,
                                                examSessions[x].student_id)
                   IN  (key \in DOMAIN sessions /\ key \notin DOMAIN sessions')
                           => examSessions'[x].status = "completed" ]_vars

\* ------------------------------------------------------------------ completed sessions
\* C26: in every reachable state, a completed ExamSession has no running
\* container exam-{assignment}-{student} and no registry entry under that
\* key, however exam accesses interleave with the sweep and the professor's
\* end.
C26_CompletedHasNoContainer ==
    \A x \in DOMAIN examSessions :
        examSessions[x].status = "completed"
        => LET key == examContainerName(examSessions[x].assignment_id,
                                        examSessions[x].student_id)
           IN  /\ key \notin DOMAIN sessions
               /\ \A c \in containers : c.name = key => ~c.running

\* ------------------------------------------------------------------ expiry liveness
\* The ids exam_sessions can hold: one row per (assignment, token).
ExamSessionIds == 1..(Cardinality(AssignmentIds) * Cardinality(Tokens))

\* C27: while the timer keeps firing and the durable store works, every
\* ExamSession that is active after its assignment's end_time is eventually
\* completed, also when the stop and remove calls for its container are
\* rejected.
C27_ExpiredEventuallyCompleted ==
    \A x \in ExamSessionIds :
        (/\ x \in DOMAIN examSessions
         /\ examSessions[x].status = "active"
         /\ assignments[examSessions[x].assignment_id].end_time # NoTime
         /\ assignments[examSessions[x].assignment_id].end_time < now)
        ~> (x \in DOMAIN examSessions /\ examSessions[x].status = "completed")

\* A sweep whose stop call was rejected has completed the session, and the
\* exited container is still in the runtime.
C27_Witness ==
    \E r \in Slots :
        /\ req[r].kind = "sweep" /\ req[r].pc = "done" /\ req[r].saw = "failed"
        /\ req[r].ended = {1}
        /\ examSessions[1].status = "completed"
        /\ assignments[9].end_time < now
        /\ \E c \in containers : c.name = <<"exam", 9, 4>> /\ ~c.running

\* ------------------------------------------------------------------ sweep safety
\* The ExamSession is active and its assignment's end_time is set and in the
\* past.
ActiveAndExpired(x) ==
    /\ examSessions[x].status = "active"
    /\ assignments[examSessions[x].assignment_id].end_time # NoTime
    /\ assignments[examSessions[x].assignment_id].end_time < now

\* C28: every step of a sweep marks completed only sessions that are active
\* with end_time in the past, issues stop and remove only for the container
\* of such a session, and forgets only the registry entry exam-{a}-{s} of
\* such a session; it never writes an Enrollment and never forgets an lms-
\* entry.
C28_SweepTouchesOnlyExpired ==
    [][ \A r \in Slots :
          (req'[r].kind = "sweep" /\ req'[r] # req[r])
          => /\ \A x \in MarkedNow : ActiveAndExpired(x)
             /\ \A x \in DOMAIN examSessions :
                   examSessions'[x] # examSessions[x] => ActiveAndExpired(x)
             /\ req'[r].pc = "call"
                   => \E x \in DOMAIN examSessions :
                         /\ examSessions[x].container_id = req'[r].call.ref
                         /\ ActiveAndExpired(x)
             /\ \A k \in DOMAIN sessions \ DOMAIN sessions' :
                   \E x \in DOMAIN examSessions :
                      /\ k = examContainerName(examSessions[x].assignment_id,
                                               examSessions[x].student_id)
                      /\ ActiveAndExpired(x)
             /\ enrollments' = enrollments ]_vars

\* ------------------------------------------------------------------ defensive completion
\* C29: an exam access made after the assignment's end_time by a student
\* whose ExamSession is still active is answered ended and leaves that
\* ExamSession completed, without waiting for a sweep.
C29_AccessCompletesExpired ==
    [][ \A r \in Slots, a \in AssignmentIds, token \in Tokens :
          (/\ ExamBegin(r, a, token)
           /\ ValidFor(token, a)
           /\ WellFormedWindow(a)
           /\ \E x \in DOMAIN examSessions :
                 /\ examSessions[x].assignment_id = a
                 /\ examSessions[x].student_id
                       = enrollments[getEnrollmentByToken(token)].student_id
                 /\ ActiveAndExpired(x))
          => /\ req'[r].result = "ended"
             /\ \A x \in DOMAIN examSessions :
                   (/\ examSessions[x].assignment_id = a
                    /\ examSessions[x].student_id
                          = enrollments[getEnrollmentByToken(token)].student_id)
                   => examSessions'[x].status = "completed" ]_vars

\* ------------------------------------------------------------------ durable mirroring
\* The step of request r that receives the answer to a successful call `op`.
Succeeded(r, kind, op) ==
    /\ req[r].kind = kind /\ req[r].pc = "reply"
    /\ req[r].call.op = op /\ req[r].reply.status = "ok"
    /\ req'[r] # req[r]

\* C30: the step that receives a successful create leaves the Enrollment
\* with the container's id and container_status created, and the step that
\* receives a successful start leaves it with a container id and
\* container_status running, so that a /access that created or started the
\* container ends with container_status running; the step of /exam that
\* receives a successful create or start leaves the ExamSession active with
\* the container's id recorded.
C30_DurableMirroring ==
    [][ \A r \in Slots :
          /\ Succeeded(r, "access", "create")
                => /\ enrollments'[req[r].eid].container_id = req[r].reply.id
                   /\ enrollments'[req[r].eid].container_status = "created"
          /\ Succeeded(r, "access", "start")
                => /\ enrollments'[req[r].eid].container_id # NoRef
                   /\ enrollments'[req[r].eid].container_status = "running"
                   /\ req'[r].result = "redirect"
          /\ Succeeded(r, "exam", "create")
                => /\ examSessions'[req[r].esid].container_id = req[r].reply.id
                   /\ examSessions'[req[r].esid].status = "active"
          /\ Succeeded(r, "exam", "start")
                => /\ examSessions'[req[r].esid].container_id # NoRef
                   /\ examSessions'[req[r].esid].status = "active" ]_vars

\* ------------------------------------------------------------------ relay ordering
\* What is left of the messages one side handed over once the messages
\* beginning with the direction's clipboard marker are removed.
Forwarded(msgs, marker) ==
    SelectSeq(msgs, LAMBDA m : ~(Len(m) > 0 /\ m[1] = marker))

\* C31: while both connections of a relayed connection are open, what was
\* sent to the container is exactly the sequence of messages received from
\* the browser, in the order received, without those beginning with 6, and
\* what was sent to the browser is exactly the sequence received from the
\* container without those beginning with 3: nothing is duplicated,
\* reordered, merged or split.
C31_PerDirectionOrder ==
    (clientState = "OPEN" /\ targetState = "OPEN") =>
        /\ toTarget = Forwarded(rfb.fromClient, ClientCutText)
        /\ toClient = Forwarded(rfb.fromTarget, ServerCutText)

\* Two different messages from the browser, the second carrying a 6 after its
\* first byte, reached the container whole and in the order received.
C31_Witness ==
    /\ clientState = "OPEN" /\ targetState = "OPEN"
    /\ rfb.fromClient = << <<3>>, <<0, 6>> >>
    /\ toTarget = << <<3>>, <<0, 6>> >>

\* The marker of the direction a message was received in.
MarkerFrom(from) == IF from = "client" THEN ClientCutText ELSE ServerCutText

\* A message beginning with its direction's clipboard marker.
Marked(msg) == Len(msg.data) > 0 /\ msg.data[1] = MarkerFrom(msg.from)

\* A clipboard message was dropped earlier on this connection.
DroppedBefore ==
    \/ \E i \in DOMAIN rfb.fromClient :
          Marked([from |-> "client", data |-> rfb.fromClient[i]])
    \/ \E i \in DOMAIN rfb.fromTarget :
          Marked([from |-> "target", data |-> rfb.fromTarget[i]])

\* C32: the step in which the relay receives a clipboard-marked message sends
\* nothing to either side, closes neither connection and leaves the
\* connection relaying; and a message without the marker that is received
\* after such a drop, in either direction, is still sent to the other side.
C32_DropHasNoOtherEffect ==
    [][ nmsgs' = nmsgs + 1 =>
          /\ Marked(lastRecv') =>
                /\ toTarget' = toTarget /\ toClient' = toClient
                /\ clientState' = clientState /\ targetState' = targetState
                /\ relayPc = "relaying" /\ relayPc' = "relaying"
          /\ (DroppedBefore /\ ~Marked(lastRecv')) =>
                IF lastRecv'.from = "client"
                THEN toTarget' = Append(toTarget, lastRecv'.data) /\ toClient' = toClient
                ELSE toClient' = Append(toClient, lastRecv'.data) /\ toTarget' = toTarget
      ]_vars

\* The browser's clipboard message was dropped, nothing was sent to either
\* side for it, and the container's next message then reached the browser.
C32_Witness ==
    /\ relayPc = "relaying"
    /\ clientState = "OPEN" /\ targetState = "OPEN"
    /\ rfb.fromClient = << <<6, 0>> >>
    /\ toTarget = <<>>
    /\ rfb.fromTarget = << <<0>> >>
    /\ toClient = << <<0>> >>
    /\ lastRecv.from = "target"

\* ------------------------------------------------------------------ operator claims
\* C33: startEnrollmentContainer on a container that exists and is running
\* issues no start call to the runtime and reports success (running),
\* leaving the container as it was.
C33_StartOnRunningIsIdempotent ==
    \A r \in Slots :
        (req[r].kind = "start" /\ req[r].saw = "running") =>
            /\ req[r].starts = 0
            /\ req[r].pc = "done" => req[r].result = "running"

\* ------------------------------------------------------------------ relay admission
\* C34: an upgrade request whose path is not /vnc/{key}/websockify, or whose
\* key has no entry in the registry when the request arrives, has its socket
\* destroyed and no outbound connection opened; so a relay is only ever
\* begun for a key that is registered at that moment, and none for a key
\* that was forgotten and not registered again.
C34_RelayAdmission ==
    [][ (relayPc = "idle" /\ relayPc' # "idle") =>
          LET url == rfb'.url
          IN  IF UrlMatches(url) /\ url[2] \in DOMAIN sessions
              THEN relayHost' # <<>>
              ELSE /\ clientState' = "destroyed"
                   /\ relayPc' = "closed"
                   /\ targetState' = "none"
                   /\ relayHost' = <<>> ]_vars

\* The student's key was registered by an access and forgotten by the stop
\* button; the upgrade request that then named it was destroyed.
C34_Witness ==
    /\ rfb.url = <<"vnc", <<"lms", 3, 4>>, "websockify">>
    /\ relayPc = "closed" /\ clientState = "destroyed" /\ targetState = "none"
    /\ <<"lms", 3, 4>> \notin DOMAIN sessions
    /\ \E r \in Slots :
          req[r].kind = "stop" /\ req[r].result = "stopped" /\ req[r].wrote

\* ------------------------------------------------------------------ overlapping sweeps
\* C35: when sweeps overlap, every expired active ExamSession is terminated
\* exactly once overall: its ended_at is written once, only one sweep
\* attempts to stop its container, and only one sweep counts it as
\* terminated.
C35_TerminatedExactlyOnce ==
    /\ \A i \in DOMAIN examSessions : examSessions[i].ends <= 1
    /\ \A r, q \in Slots :
          (r # q /\ req[r].kind = "sweep" /\ req[q].kind = "sweep") =>
              /\ req[r].stopped \cap req[q].stopped = {}
              /\ req[r].ended \cap req[q].ended = {}

\* ------------------------------------------------------------------ listing under concurrency
\* C36: under any interleaving of listings with access requests, a listing
\* removes a registry entry only if the container registered under that key
\* at that moment is missing from the runtime; an entry re-registered with a
\* fresh container while the listing awaited the inspection of the key's
\* previous container is not deleted.
C36_ListingForgetsOnlyDead ==
    [][ \A k \in DOMAIN sessions :
          k \notin DOMAIN sessions' => Resolve(sessions[k].containerId) = {} ]_vars

\* ------------------------------------------------------------------ the two end tests
\* The token of the student of an ExamSession row, enrolled in the exam's course.
TokensOf(sess) ==
    {enrollments[e].access_token : e \in {x \in DOMAIN enrollments :
        /\ enrollments[x].student_id = sess.student_id
        /\ enrollments[x].course_id = assignments[sess.assignment_id].course_id}}

\* The active ExamSessions as the sweep reads them, each with its student's token.
ActiveWithToken ==
    LET snap == getActiveExamSessions(examSessions)
    IN  UNION {{<<snap[k], token>> : token \in TokensOf(snap[k])} : k \in DOMAIN snap}

\* C37 as stated: at every instant the sweeper treats an active session of
\* an exam as expired if and only if an exam access by its student at that
\* instant would be rejected with ended, and an exam without end_time is
\* expired for neither.
C37_EndedIffExpired ==
    \A p \in ActiveWithToken :
        LET out == ExamOutcome(p[1].assignment_id, p[2])
        IN  /\ SweepExpired(p[1], now) <=> out = "ended"
            /\ p[1].end_time = NoTime => (~SweepExpired(p[1], now) /\ out # "ended")

\* C37 (amended): at every instant the sweeper treats an active session of
\* an exam as expired if and only if an exam access by its student at that
\* instant would be rejected with ended, or with not-started in the case
\* that the exam's start_time is still ahead although its end_time has
\* passed (the start test runs first); so an access is never let in at an
\* instant at which a sweep would terminate the exam's sessions, and an exam
\* without end_time is expired for neither.
C37_RefusedIffExpired ==
    \A p \in ActiveWithToken :
        LET out == ExamOutcome(p[1].assignment_id, p[2])
            startAhead == out = "not-started" /\ p[1].end_time # NoTime
                             /\ p[1].end_time < now
        IN  /\ SweepExpired(p[1], now) <=> (out = "ended" \/ startAhead)
            /\ SweepExpired(p[1], now) => out \notin {"proceed", "already-submitted"}
            /\ p[1].end_time = NoTime => (~SweepExpired(p[1], now) /\ out # "ended")

\* A sweep is stopping the container of a session whose exam ended, and an
\* access by its student at this instant would be answered ended.
C37_Witness ==
    \E p \in ActiveWithToken : \E r \in Slots :
        /\ SweepExpired(p[1], now)
        /\ ExamOutcome(p[1].assignment_id, p[2]) = "ended"
        /\ req[r].kind = "sweep" /\ req[r].pc = "call" /\ req[r].call.op = "stop"
        /\ req[r].snap[req[r].idx].id = p[1].id

\* ------------------------------------------------------------------ token isolation
\* The container names that belong to the enrollment owning a token: its
\* regular container and its exam containers for the exams of its course.
OwnNames(token) ==
    LET e == getEnrollmentByToken(token)
    IN  IF e = 0 THEN {}
        ELSE {getContainerName(enrollments[e])} \cup
             {examContainerName(a, enrollments[e].student_id) :
                 a \in {x \in DOMAIN assignments :
                           assignments[x].course_id = enrollments[e].course_id}}

\* C38: every step of an access made with a token creates or starts only
\* containers named for the enrollment that owns the token (lms-{c}-{s},
\* or exam-{a}-{s} for an exam a of course c), registers only those names,
\* writes only that Enrollment, creates ExamSessions only for that student
\* and an exam of that course, and completes no ExamSession.
C38_TokenIsolation ==
    [][ \A r \in Slots :
          (req'[r] # req[r] /\ req'[r].kind \in {"access", "exam"}) =>
             LET token == req'[r].token
                 e == getEnrollmentByToken(token)
             IN  /\ \A c \in containers' : c \notin containers => c.name \in OwnNames(token)
                 /\ req'[r].pc = "call" => req'[r].call.key \in OwnNames(token)
                 /\ \A k \in DOMAIN sessions' :
                       (k \notin DOMAIN sessions \/ sessions'[k] # sessions[k])
                          => k \in OwnNames(token)
                 /\ \A x \in DOMAIN enrollments :
                       enrollments'[x] # enrollments[x] => x = e
                 /\ \A i \in DOMAIN examSessions' :
                       IF i \in DOMAIN examSessions
                       THEN /\ examSessions'[i].status = examSessions[i].status
                            /\ examSessions'[i] # examSessions[i]
                                  => examSessions[i].student_id = enrollments[e].student_id
                       ELSE /\ e # 0
                            /\ examSessions'[i].student_id = enrollments[e].student_id
                            /\ assignments[examSessions'[i].assignment_id].course_id
                                  = enrollments[e].course_id ]_vars

\* Student 4 holds the regular container of course 3 and student 5 the
\* container and ExamSession of exam 8 of course 6, after student 4's token
\* was refused for exam 8.
C38_Witness ==
    /\ DOMAIN sessions = {<<"lms", 3, 4>>, <<"exam", 8, 5>>}
    /\ {c.name : c \in {x \in containers : x.running}} = {<<"lms", 3, 4>>, <<"exam", 8, 5>>}
    /\ Len(examSessions) = 1
    /\ examSessions[1].student_id = 5 /\ examSessions[1].assignment_id = 8
    /\ \E r \in Slots :
          req[r].kind = "exam" /\ req[r].token = "tok-A" /\ req[r].result = "forbidden"

\* C39: whenever stopEnrollmentContainer answers success with status
\* stopped, the registry has no entry for the enrollment's key and the
\* Enrollment's container_status is 'stopped', also when the container was
\* already stopped or missing when it was called.
C39_StoppedMeansStopped ==
    [][ \A r \in Slots :
          (req[r].kind = "stop" /\ req[r].pc = "reply"
             /\ req'[r].pc = "done" /\ req'[r].result = "stopped")
          => /\ req[r].key \notin DOMAIN sessions'
             /\ enrollments'[req[r].eid].container_status = "stopped" ]_vars

\* ------------------------------------------------------------------ ExamSession status
\* C40: an ExamSession's status is always active or completed (a row the
\* exam access inserts is active, never pending); the only change of status
\* is from active to completed, no row disappears, and no operation (exam
\* access, sweep, the professor's end, DELETE /api/sessions/:id) turns a
\* completed ExamSession back to active.
C40_StatusMonotone ==
    /\ [](\A i \in DOMAIN examSessions :
            examSessions[i].status \in {"active", "completed"})
    /\ [][ /\ \A i \in DOMAIN examSessions :
                /\ i \in DOMAIN examSessions'
                /\ examSessions'[i].status # examSessions[i].status
                      => (examSessions[i].status = "active"
                            /\ examSessions'[i].status = "completed")
           /\ \A i \in DOMAIN examSessions' \ DOMAIN examSessions :
                examSessions'[i].status = "active" ]_vars

\* The professor ended the student's session, and the exam access, the
\* second end and the sweep that came after left it completed.
C40_Witness ==
    /\ Len(examSessions) = 1
    /\ examSessions[1].status = "completed"
    /\ \E r \in Slots : req[r].kind = "exam" /\ req[r].result = "already-submitted"

====
